---- MODULE Spec2Model ----
(***************************************************************************)
(* A model of make_output_string (src/app/api/bi_checks.py): the QA run    *)
(* that compares the new breakthrough-infection snapshot with the existing *)
(* one.  A run loads the two datasets, classifies and normalizes the       *)
(* metric columns, then appends the records of the four checks to `out`.   *)
(*                                                                         *)
(* Strings are sequences of one-character strings, so that replace, strip, *)
(* startswith, the substring test and number parsing are computed.  A      *)
(* float is the double it is in the program (float('0.455') is             *)
(* 8196551321814303 * 2^-54), an infinity or NaN; the integers of numpy    *)
(* have 64 binary digits.                                                  *)
(***************************************************************************)
EXTENDS Integers, Sequences, FiniteSets, TLC

(***************************************************************************)
(* Bounds of the model.                                                    *)
(***************************************************************************)
\* Rows per dataset.
MaxRows == 2
\* Metric cells hold the whole numbers -MaxVal .. MaxVal.
MaxVal == 3

(***************************************************************************)
(* String literals of the program.                                         *)
(***************************************************************************)
sAbbr == <<"A", "b", "b", "r">>
first_numeric_colname == <<"B", "I", " ", "c", "a", "s", "e", "s">>
last_numeric_colname ==
    <<"T", "o", "t", "a", "l", " ", "I", "n", "d", "i", "v", "i", "d", "u", "a", "l", "s",
      " ", "n", "o", "t", " ", "f", "u", "l", "l", "y", " ",
      "v", "a", "c", "c", "i", "n", "a", "t", "e", "d">>
sPercent == <<"p", "e", "r", "c", "e", "n", "t">>
sUnnamed == <<"U", "n", "n", "a", "m", "e", "d">>
sAll == <<"A", "l", "l">>
whitelist_cols == {last_numeric_colname}

\* Column names of the input universe besides the two boundary columns.
cBIPercent == <<"B", "I", " ", "p", "e", "r", "c", "e", "n", "t">>
cNotes == <<"N", "o", "t", "e", "s">>
cUnnamedNew == <<"U", "n", "n", "a", "m", "e", "d", ":", " ", "4">>
cUnnamedOld == <<"U", "n", "n", "a", "m", "e", "d", ":", " ", "5">>

\* State identifiers of the input universe.
sCA == <<"C", "A">>
sNY == <<"N", "Y">>
sTX == <<"T", "X">>
States == {sCA, sNY, sTX}

(***************************************************************************)
(* str methods.                                                            *)
(***************************************************************************)
RECURSIVE StrReplace(_, _, _)
\* s.replace(old, new) for a one-character `old`; `new` is a string.
StrReplace(s, old, new) ==
    IF s = <<>> THEN <<>>
    ELSE (IF Head(s) = old THEN new ELSE <<Head(s)>>) \o StrReplace(Tail(s), old, new)

RECURSIVE LStrip(_, _)
LStrip(s, ch) == IF s # <<>> /\ Head(s) = ch THEN LStrip(Tail(s), ch) ELSE s

RECURSIVE RStrip(_, _)
RStrip(s, ch) ==
    IF s # <<>> /\ s[Len(s)] = ch THEN RStrip(SubSeq(s, 1, Len(s) - 1), ch) ELSE s

\* s.strip(ch): the character is removed from both ends.
StrStrip(s, ch) == RStrip(LStrip(s, ch), ch)

\* s.startswith(prefix)
StartsWith(s, prefix) ==
    Len(s) >= Len(prefix) /\ SubSeq(s, 1, Len(prefix)) = prefix

\* sub in s
Contains(s, sub) ==
    \E i \in 1..(Len(s) - Len(sub) + 1) : SubSeq(s, i, i + Len(sub) - 1) = sub

(***************************************************************************)
(* Natural numbers of any size: the sequence of the digits in base 2^15,   *)
(* the lowest first and the highest not 0 (the empty sequence is 0).  They *)
(* hold the mantissa of a double and the integers that %d prints.  The     *)
(* recursive definitions are functions that halve their argument, which    *)
(* keeps their evaluation shallow.                                         *)
(***************************************************************************)
RECURSIVE Pow2(_)
Pow2(n) == IF n = 0 THEN 1 ELSE 2 * Pow2(n - 1)
RECURSIVE Pow10(_)
Pow10(n) == IF n = 0 THEN 1 ELSE 10 * Pow10(n - 1)
RECURSIVE SmallBitLen(_)
\* The number of binary digits of a small natural number.
SmallBitLen(n) == IF n = 0 THEN 0 ELSE 1 + SmallBitLen(n \div 2)
RECURSIVE SmallTrailingZeros(_)
SmallTrailingZeros(n) == IF n % 2 = 1 THEN 0 ELSE 1 + SmallTrailingZeros(n \div 2)

Max(S) == CHOOSE i \in S : \A j \in S : j <= i
Min(S) == CHOOSE i \in S : \A j \in S : i <= j
Zeros(n) == [i \in 1..n |-> 0]

Base == Pow2(15)
LimbBits == SmallBitLen(Base) - 1

RECURSIVE BOf(_)
\* The natural number n.
BOf(n) == IF n = 0 THEN <<>> ELSE <<n % Base>> \o BOf(n \div Base)

\* a without its leading zeros
BNorm(a) ==
    IF \A i \in DOMAIN a : a[i] = 0 THEN <<>>
    ELSE SubSeq(a, 1, Max({i \in DOMAIN a : a[i] # 0}))

\* The Len(a) low digits of a * k + c, and the carry.
MulAddDigits[a \in Seq(Nat), k \in Nat, c \in Nat] ==
    IF a = <<>> THEN [d |-> <<>>, c |-> c]
    ELSE IF Len(a) = 1
    THEN [d |-> <<(a[1] * k + c) % Base>>, c |-> (a[1] * k + c) \div Base]
    ELSE LET lo == MulAddDigits[SubSeq(a, 1, Len(a) \div 2), k, c]
             hi == MulAddDigits[SubSeq(a, Len(a) \div 2 + 1, Len(a)), k, lo.c]
         IN  [d |-> lo.d \o hi.d, c |-> hi.c]
\* a * k + c for 0 < k <= Base and 0 <= c < Base
BMulAdd(a, k, c) == MulAddDigits[a, k, c].d \o BOf(MulAddDigits[a, k, c].c)

\* -1, 0 or 1 as a < b, a = b or a > b
BCmp(a, b) ==
    IF Len(a) < Len(b) THEN 0 - 1
    ELSE IF Len(a) > Len(b) THEN 1
    ELSE IF a = b THEN 0
    ELSE LET i == Max({j \in DOMAIN a : a[j] # b[j]})
         IN  IF a[i] < b[i] THEN 0 - 1 ELSE 1

\* The digits of a - b - c of two numbers of one length, and the borrow.
SubDigits[a \in Seq(Nat), b \in Seq(Nat), c \in Nat] ==
    IF a = <<>> THEN [d |-> <<>>, c |-> c]
    ELSE IF Len(a) = 1
    THEN [d |-> <<(a[1] - b[1] - c + Base) % Base>>,
          c |-> IF a[1] - b[1] - c < 0 THEN 1 ELSE 0]
    ELSE LET h == Len(a) \div 2
             lo == SubDigits[SubSeq(a, 1, h), SubSeq(b, 1, h), c]
             hi == SubDigits[SubSeq(a, h + 1, Len(a)), SubSeq(b, h + 1, Len(a)), lo.c]
         IN  [d |-> lo.d \o hi.d, c |-> hi.c]
\* a - b for a >= b
BSub(a, b) == BNorm(SubDigits[a, b \o Zeros(Len(a) - Len(b)), 0].d)

\* The digits of a + b + c of two numbers of one length, and the carry.
AddDigits[a \in Seq(Nat), b \in Seq(Nat), c \in Nat] ==
    IF a = <<>> THEN [d |-> <<>>, c |-> c]
    ELSE IF Len(a) = 1
    THEN [d |-> <<(a[1] + b[1] + c) % Base>>, c |-> (a[1] + b[1] + c) \div Base]
    ELSE LET h == Len(a) \div 2
             lo == AddDigits[SubSeq(a, 1, h), SubSeq(b, 1, h), c]
             hi == AddDigits[SubSeq(a, h + 1, Len(a)), SubSeq(b, h + 1, Len(a)), lo.c]
         IN  [d |-> lo.d \o hi.d, c |-> hi.c]
\* a + b
BAdd(a, b) ==
    BNorm(AddDigits[a \o Zeros(Max({Len(a), Len(b)}) - Len(a)),
                    b \o Zeros(Max({Len(a), Len(b)}) - Len(b)), 0].d
          \o <<AddDigits[a \o Zeros(Max({Len(a), Len(b)}) - Len(a)),
                         b \o Zeros(Max({Len(a), Len(b)}) - Len(b)), 0].c>>)

\* The digits of the quotient of r * Base^Len(a) + a by k, and the
\* remainder, for r < k.
DivDigits[a \in Seq(Nat), k \in Nat, r \in Nat] ==
    IF a = <<>> THEN [q |-> <<>>, r |-> r]
    ELSE IF Len(a) = 1
    THEN [q |-> <<(r * Base + a[1]) \div k>>, r |-> (r * Base + a[1]) % k]
    ELSE LET h == Len(a) \div 2
             hi == DivDigits[SubSeq(a, h + 1, Len(a)), k, r]
             lo == DivDigits[SubSeq(a, 1, h), k, hi.r]
         IN  [q |-> lo.q \o hi.q, r |-> lo.r]
\* a \div k and a % k for 0 < k <= Base
BDivSmall(a, k) == [q |-> BNorm(DivDigits[a, k, 0].q), r |-> DivDigits[a, k, 0].r]

\* a * b
MulDigits[a \in Seq(Nat), b \in Seq(Nat)] ==
    IF a = <<>> \/ b = <<>> THEN <<>>
    ELSE IF Len(b) = 1 THEN (IF b[1] = 0 THEN <<>> ELSE BMulAdd(a, b[1], 0))
    ELSE BAdd(MulDigits[a, SubSeq(b, 1, Len(b) \div 2)],
              Zeros(Len(b) \div 2) \o MulDigits[a, SubSeq(b, Len(b) \div 2 + 1, Len(b))])
BMul(a, b) == BNorm(MulDigits[a, b])

\* The number of binary digits of a.
BBitLen(a) ==
    IF a = <<>> THEN 0 ELSE LimbBits * (Len(a) - 1) + SmallBitLen(a[Len(a)])

\* a * 2^n
BShl(a, n) ==
    IF a = <<>> THEN <<>>
    ELSE Zeros(n \div LimbBits) \o BMulAdd(a, Pow2(n % LimbBits), 0)
\* a \div 2^n
BShr(a, n) ==
    IF n \div LimbBits >= Len(a) THEN <<>>
    ELSE BDivSmall(SubSeq(a, n \div LimbBits + 1, Len(a)), Pow2(n % LimbBits)).q

BIsOdd(a) == a # <<>> /\ a[1] % 2 = 1

\* The number of binary zeros a > 0 ends with.
BTrailingZeros(a) ==
    LET i == Min({j \in DOMAIN a : a[j] # 0})
    IN  LimbBits * (i - 1) + SmallTrailingZeros(a[i])

\* a * 10^k
TimesPow10[a \in Seq(Nat), k \in Nat] ==
    IF k <= 4 THEN BMulAdd(a, Pow10(k), 0)
    ELSE TimesPow10[TimesPow10[a, k \div 2], k - k \div 2]
BTimesPow10(a, k) == TimesPow10[a, k]

\* a \div 10^k
DivPow10[a \in Seq(Nat), k \in Nat] ==
    IF k <= 4 THEN BDivSmall(a, Pow10(k)).q
    ELSE DivPow10[DivPow10[a, k \div 2], k - k \div 2]
BDivPow10(a, k) == DivPow10[a, k]

(***************************************************************************)
(* Numbers and their text.  Texts are ASCII.                               *)
(***************************************************************************)
Hundred == 100

DigitChars == <<"0", "1", "2", "3", "4", "5", "6", "7", "8", "9">>
IsDigit(ch) == \E d \in 1..10 : DigitChars[d] = ch
DigitVal(ch) == (CHOOSE d \in 1..10 : DigitChars[d] = ch) - 1

RECURSIVE DigitsVal(_, _)
\* The small whole number the digits of s denote.
DigitsVal(s, acc) ==
    IF s = <<>> THEN acc ELSE DigitsVal(Tail(s), 10 * acc + DigitVal(Head(s)))

\* The whole number the digits of s denote, after the digits read into acc.
FromDigits[s \in Seq(STRING), acc \in Seq(Nat)] ==
    IF Len(s) <= 4 THEN BMulAdd(acc, Pow10(Len(s)), DigitsVal(s, 0))
    ELSE FromDigits[SubSeq(s, Len(s) \div 2 + 1, Len(s)),
                    FromDigits[SubSeq(s, 1, Len(s) \div 2), acc]]
BFromDigits(s, acc) == FromDigits[s, acc]

\* str(a) of a whole number: a has at most n decimal digits.
BToText(a) ==
    LET n == (BBitLen(a) * 30103) \div 100000 + 1
        digits == [i \in 1..n |-> DigitChars[BDivSmall(BDivPow10(a, n - i), 10).r + 1]]
    IN  IF a = <<>> THEN <<"0">> ELSE LStrip(digits, "0")

\* The characters a number parser skips at both ends of the text: space,
\* \t, \n, vertical tab, \f and \r.
WhiteSpace == {" ", "\t", "\n", "", "\f", "\r"}
RECURSIVE LStripSpace(_)
LStripSpace(s) == IF s # <<>> /\ Head(s) \in WhiteSpace THEN LStripSpace(Tail(s)) ELSE s
RECURSIVE RStripSpace(_)
RStripSpace(s) ==
    IF s # <<>> /\ s[Len(s)] \in WhiteSpace
    THEN RStripSpace(SubSeq(s, 1, Len(s) - 1)) ELSE s
StripSpace(s) == RStripSpace(LStripSpace(s))

\* str.lower() of ASCII text.
UpperChars ==
    <<"A", "B", "C", "D", "E", "F", "G", "H", "I", "J", "K", "L", "M",
      "N", "O", "P", "Q", "R", "S", "T", "U", "V", "W", "X", "Y", "Z">>
LowerChars ==
    <<"a", "b", "c", "d", "e", "f", "g", "h", "i", "j", "k", "l", "m",
      "n", "o", "p", "q", "r", "s", "t", "u", "v", "w", "x", "y", "z">>
LowerChar(ch) ==
    IF \E i \in DOMAIN UpperChars : UpperChars[i] = ch
    THEN LowerChars[CHOOSE i \in DOMAIN UpperChars : UpperChars[i] = ch] ELSE ch
Lower(s) == [i \in DOMAIN s |-> LowerChar(s[i])]
sInf == <<"i", "n", "f">>
sInfinity == <<"i", "n", "f", "i", "n", "i", "t", "y">>
sNan == <<"n", "a", "n">>
sTrue == <<"T", "r", "u", "e">>
sFalse == <<"F", "a", "l", "s", "e">>

\* The first position of s that holds a character of S, or 0.
FirstOf(s, S) ==
    IF \E i \in DOMAIN s : s[i] \in S
    THEN CHOOSE i \in DOMAIN s : s[i] \in S /\ \A j \in 1..(i - 1) : s[j] \notin S
    ELSE 0

\* One or more digits; float() allows single underscores between digits.
DigitPart(s, underscores) ==
    /\ s # <<>>
    /\ IsDigit(s[1])
    /\ IsDigit(s[Len(s)])
    /\ \A i \in DOMAIN s :
          IsDigit(s[i]) \/ (underscores /\ s[i] = "_" /\ IsDigit(s[i + 1]))

Unsigned(s) == IF s # <<>> /\ Head(s) \in {"+", "-"} THEN Tail(s) ELSE s
Negative(s) == s # <<>> /\ Head(s) = "-"

\* The exponent an exponent part denotes; beyond a million it makes no
\* difference to a double.
ExponentOf(expo) ==
    LET digits == LStrip(SelectSeq(Unsigned(expo), IsDigit), "0")
    IN  (IF Negative(expo) THEN 0 - 1 ELSE 1)
           * (IF Len(digits) > 6 THEN 1000000 ELSE DigitsVal(digits, 0))

\* The text is no number.
NoNumber ==
    [ok |-> FALSE, kind |-> "", neg |-> FALSE, digits |-> <<>>, e |-> 0, int |-> FALSE,
     w |-> 0, x |-> <<>>]
\* The most digits of an exponent the parser of pandas reads.
MaxExpDigits == 17
\* The digits before and after the point and the exponent part are well
\* formed.
DecimalOk(whole, frac, expo, hasDot, hasExp, python) ==
    /\ IF hasDot
       THEN /\ whole = <<>> \/ DigitPart(whole, python)
            /\ frac = <<>> \/ DigitPart(frac, python)
            /\ whole # <<>> \/ frac # <<>>
       ELSE DigitPart(whole, python)
    /\ hasExp => DigitPart(Unsigned(expo), python)
    /\ (hasExp /\ ~python) => Len(Unsigned(expo)) <= MaxExpDigits
\* The number of a decimal: `digits` are the digits before and after the
\* point, the first `w` of them before it, `x` is the exponent part and `e`
\* the power of ten the digits are scaled by; `int` says that the text has
\* neither point nor exponent.
ParseDecimal(neg, whole, frac, expo, hasDot, hasExp, python) ==
    IF DecimalOk(whole, frac, expo, hasDot, hasExp, python)
    THEN [ok |-> TRUE, kind |-> "fin", neg |-> neg,
          digits |-> SelectSeq(whole \o frac, IsDigit),
          e |-> ExponentOf(expo) - Len(SelectSeq(frac, IsDigit)),
          int |-> ~hasDot /\ ~hasExp,
          w |-> Len(SelectSeq(whole, IsDigit)), x |-> expo]
    ELSE NoNumber
\* The mantissa is split at the point (dot = 0: it has none).
ParseMantissa(neg, mant, dot, expo, hasExp, python) ==
    ParseDecimal(neg,
                 IF dot = 0 THEN mant ELSE SubSeq(mant, 1, dot - 1),
                 IF dot = 0 THEN <<>> ELSE SubSeq(mant, dot + 1, Len(mant)),
                 expo, dot # 0, hasExp, python)
\* The text after the sign is split at the e (ePos = 0: it has none).
ParseExponent(neg, mant, expo, hasExp, python) ==
    ParseMantissa(neg, mant, FirstOf(mant, {"."}), expo, hasExp, python)
ParseUnsigned(neg, body, ePos, python) ==
    ParseExponent(neg,
                  IF ePos = 0 THEN body ELSE SubSeq(body, 1, ePos - 1),
                  IF ePos = 0 THEN <<>> ELSE SubSeq(body, ePos + 1, Len(body)),
                  ePos # 0, python)
\* The words: float() reads inf, infinity and nan after the white space is
\* skipped; the parser of pandas reads inf and infinity only, and only
\* when they are the whole field.
ParseWord(s, word, neg, python) ==
    IF word \in {sInf, sInfinity}
    THEN [NoNumber EXCEPT !.ok = TRUE, !.kind = "inf", !.neg = neg]
    ELSE IF python /\ word = sNan
    THEN [NoNumber EXCEPT !.ok = TRUE, !.kind = "nan"]
    ELSE ParseUnsigned(Negative(s), Unsigned(s), FirstOf(Unsigned(s), {"e", "E"}), python)
ParseStripped(text, s, python) ==
    ParseWord(s,
              IF python THEN Lower(Unsigned(s)) ELSE Lower(Unsigned(text)),
              IF python THEN Negative(s) ELSE Negative(text),
              python)
\* How a number parser splits a text.  Both parsers skip white space at
\* both ends and read a sign, digits with an optional point and an optional
\* exponent; float() (python) also reads underscores between digits, the
\* parser of pandas reads an exponent of at most 17 digits.
ParseNumber(text, python) == ParseStripped(text, StripSpace(text), python)

\* float(s) returns a float (it raises ValueError otherwise).
IsFloatText(s) == ParseNumber(s, TRUE).ok

RECURSIVE NatText(_)
NatText(n) ==
    IF n < 10 THEN <<DigitChars[n + 1]>>
    ELSE NatText(n \div 10) \o <<DigitChars[(n % 10) + 1]>>

\* str(n) of a small whole number.
IntText(n) == IF n < 0 THEN <<"-">> \o NatText(0 - n) ELSE NatText(n)

(***************************************************************************)
(* Cells: a cell of a DataFrame is NaN, a str, a bool, a float or an       *)
(* integer of numpy.  A finite float is the double v * m * 2^e with the    *)
(* sign v and an odd m (0.0 and -0.0 have m = 0); an integer is v * m.     *)
(***************************************************************************)
NaN == [t |-> "nan", s |-> <<>>, v |-> 0, m |-> <<>>, e |-> 0]
Str(s) == [t |-> "str", s |-> s, v |-> 0, m |-> <<>>, e |-> 0]
Bool(b) == [t |-> "bool", s |-> <<>>, v |-> IF b THEN 1 ELSE 0, m |-> <<>>, e |-> 0]
\* float('inf') and float('-inf')
Inf(sign) == [t |-> "inf", s |-> <<>>, v |-> sign, m |-> <<>>, e |-> 0]
\* 0.0 and -0.0
Zero(sign) == [t |-> "num", s |-> <<>>, v |-> sign, m |-> <<>>, e |-> 0]
\* The finite float sign * m * 2^e for m > 0 of at most 53 binary digits.
Num(sign, m, e) ==
    [t |-> "num", s |-> <<>>, v |-> sign,
     m |-> BShr(m, BTrailingZeros(m)), e |-> e + BTrailingZeros(m)]
\* The np.int64 (kind "int") or np.uint64 (kind "uint") sign * m.
IntCell(kind, sign, m) ==
    [t |-> kind, s |-> <<>>, v |-> IF m = <<>> THEN 1 ELSE sign, m |-> m, e |-> 0]

\* pd.isnull(x)
IsNull(x) == x.t = "nan"
IsInf(x) == x.t = "inf"
IsInteger(x) == x.t \in {"int", "uint"}

\* The format of a double: 52 binary digits after the leading one, normal
\* numbers from 2^-1022, and infinity from 2^1024.
MantBits == 52
MinExp == 0 - 1022
MaxExp == 1023

\* One more binary digit of the quotient x.q of a division by b with the
\* remainder x.r < b.
DivBit(x, b) ==
    IF BCmp(BMulAdd(x.r, 2, 0), b) >= 0
    THEN [q |-> BMulAdd(x.q, 2, 1), r |-> BSub(BMulAdd(x.r, 2, 0), b)]
    ELSE [q |-> BMulAdd(x.q, 2, 0), r |-> BMulAdd(x.r, 2, 0)]
\* n more of them
DivState == [q : Seq(Nat), r : Seq(Nat)]
DivBits[x \in DivState, b \in Seq(Nat), n \in Nat] ==
    IF n = 0 THEN x
    ELSE IF n = 1 THEN DivBit(x, b)
    ELSE DivBits[DivBits[x, b, n \div 2], b, n - n \div 2]

\* The exponent t of a quotient: 2^t <= a / b < 2^(t + 1), where t0 is the
\* difference of the numbers of binary digits of a and b.
QuotientExp(a, b, t0) ==
    IF (IF t0 >= 0 THEN BCmp(a, BShl(b, t0)) >= 0 ELSE BCmp(BShl(a, 0 - t0), b) >= 0)
    THEN t0 ELSE t0 - 1
\* The finite float sign * q * 2^e, or the infinity it overflows to.
Finite(sign, q, e) ==
    IF BBitLen(q) + e > MaxExp + 1 THEN Inf(sign) ELSE Num(sign, q, e)
\* The quotient d.q with the remainder d.r of a division by b rounds up.
RoundsUp(d, b, half) ==
    d.r # <<>> /\ (half > 0 \/ (half = 0 /\ BIsOdd(d.q)))
\* The float sign * d.q * 2^e of the quotient d, rounded to the nearest.
Rounded(sign, d, b, e) ==
    Finite(sign,
           IF RoundsUp(d, b, BCmp(BMulAdd(d.r, 2, 0), b)) THEN BMulAdd(d.q, 1, 1) ELSE d.q,
           e)
\* The nearest double of a / b for 1 <= a / b < 2, scaled by 2^t, with n
\* binary digits after the leading one.
NearestOf(sign, a, b, t, n) ==
    IF n < 0 - 1 THEN Zero(sign)
    ELSE IF n = 0 - 1
    THEN (IF a = b THEN Zero(sign) ELSE Num(sign, <<1>>, MinExp - MantBits))
    ELSE Rounded(sign, DivBits[[q |-> <<1>>, r |-> BSub(a, b)], b, n], b, t - n)
\* The same of a / b with the exponent t: a number below 2^MinExp has
\* fewer binary digits.
NearestAt(sign, a, b, t) ==
    IF t > MaxExp THEN Inf(sign)
    ELSE NearestOf(sign,
                   IF t >= 0 THEN a ELSE BShl(a, 0 - t),
                   IF t >= 0 THEN BShl(b, t) ELSE b,
                   t,
                   IF t >= MinExp THEN MantBits ELSE t - MinExp + MantBits)
\* The double nearest to sign * a / b (b > 0), ties to the even mantissa:
\* what float() makes of a decimal and what a division of floats returns.
Nearest(sign, a, b) ==
    IF a = <<>> THEN Zero(sign)
    ELSE NearestAt(sign, a, b, QuotientExp(a, b, BBitLen(a) - BBitLen(b)))

\* The float a parsed text denotes; float('nan') is NaN.
FloatOf(p) ==
    LET sign == IF p.neg THEN 0 - 1 ELSE 1
        sig == LStrip(p.digits, "0")
    IN  IF p.kind = "nan" THEN NaN
        ELSE IF p.kind = "inf" THEN Inf(sign)
        ELSE IF sig = <<>> THEN Zero(sign)
        ELSE IF Len(sig) + p.e > 310 THEN Inf(sign)
        ELSE IF Len(sig) + p.e < 0 - 330 THEN Zero(sign)
        ELSE Nearest(sign,
                     BTimesPow10(BFromDigits(sig, <<>>), IF p.e > 0 THEN p.e ELSE 0),
                     BTimesPow10(<<1>>, IF p.e < 0 THEN 0 - p.e ELSE 0))

(***************************************************************************)
(* The number parser of pandas (pd.to_numeric and pd.read_csv) computes in *)
(* doubles: it reads the first 17 digits into a double, counts the others  *)
(* before the point into the exponent and drops the others after it, then  *)
(* multiplies or divides by the double of the power of ten.  A power above *)
(* 308 and a product that overflows are errors.                            *)
(***************************************************************************)
MaxDigits == 17
ExactDigits == 15
MaxPower == 308

\* The whole number a double x >= 1 without fraction is.
WholeOf(x) == IF x.m = <<>> THEN <<>> ELSE BShl(x.m, x.e)
\* The double nearest to the whole number a, as a whole number.
RoundWhole(a) == IF BBitLen(a) <= MantBits + 1 THEN a ELSE WholeOf(Nearest(1, a, <<1>>))
\* number * 10. + digit
AddDigit(number, ch) == RoundWhole(BMulAdd(RoundWhole(BMulAdd(number, 10, 0)), 1, DigitVal(ch)))
\* The double the loop over the digits leaves: the first 15 digits are
\* exact.
ReadDigits(digits) ==
    LET n15 == BFromDigits(SubSeq(digits, 1, Min({Len(digits), ExactDigits})), <<>>)
    IN  IF Len(digits) <= ExactDigits THEN n15
        ELSE IF Len(digits) = ExactDigits + 1 THEN AddDigit(n15, digits[ExactDigits + 1])
        ELSE AddDigit(AddDigit(n15, digits[ExactDigits + 1]), digits[ExactDigits + 2])

\* The C int the digits of an exponent are read into: it wraps around in
\* its 32 binary digits.  Beyond a million the exponent makes no difference.
WrappedInt(a) ==
    LET d == [i \in 1..3 |-> IF i <= Len(a) THEN a[i] ELSE 0]
        n == d[1] + d[2] * Base
             + (IF d[3] % 4 < 2 THEN d[3] % 4 ELSE (d[3] % 4) - 4) * Base * Base
    IN  IF n > 1000000 THEN 1000000 ELSE IF n < 0 - 1000000 THEN 0 - 1000000 ELSE n
PandasExponent(expo) ==
    (IF Negative(expo) THEN 0 - 1 ELSE 1)
        * WrappedInt(BFromDigits(SelectSeq(Unsigned(expo), IsDigit), <<>>))

\* The double 1e<k> of the table of powers, which is a whole number.
PowerOfTen(k) ==
    IF k <= 22 THEN BTimesPow10(<<1>>, k)
    ELSE WholeOf(Nearest(1, BTimesPow10(<<1>>, k), <<1>>))
\* x / d of a double x and a whole number d
DivideDouble(x, d) ==
    IF x.m = <<>> THEN x
    ELSE Nearest(x.v, BShl(x.m, IF x.e > 0 THEN x.e ELSE 0),
                 BShl(d, IF x.e < 0 THEN 0 - x.e ELSE 0))
\* A product that overflows is an error.
ErrorIfInf(x) == IF IsInf(x) THEN NaN ELSE x
\* The double of sign * number * 10^power, or NaN for the error; the number
\* is a double.
ScaleDouble(sign, number, power) ==
    IF power > MaxPower THEN NaN
    ELSE IF number = <<>> THEN Zero(IF power < 0 - 2 * MaxPower THEN 1 ELSE sign)
    ELSE IF power = 0 THEN Num(sign, number, 0)
    ELSE IF power > 0
    THEN ErrorIfInf(Nearest(sign, BMul(number, PowerOfTen(power)), <<1>>))
    ELSE IF power >= 0 - MaxPower THEN Nearest(sign, number, PowerOfTen(0 - power))
    ELSE IF power < 0 - 2 * MaxPower THEN Zero(1)
    ELSE DivideDouble(Nearest(sign, number, PowerOfTen(0 - MaxPower - power)),
                      PowerOfTen(MaxPower))
\* The same of a text the parser has split: p.w digits are before the point.
ScaleDigits(p, used, wholeUsed) ==
    ScaleDouble(IF p.neg THEN 0 - 1 ELSE 1,
                ReadDigits(SubSeq(p.digits, 1, used)),
                (p.w - wholeUsed) - (used - wholeUsed) + PandasExponent(p.x))
\* The float the parser of pandas makes of a text it has split, or NaN when
\* it reports an error (the parser reads no nan).
PandasFloat(p) ==
    IF ~p.ok THEN NaN
    ELSE IF p.kind = "inf" THEN Inf(IF p.neg THEN 0 - 1 ELSE 1)
    ELSE ScaleDigits(p, Min({Len(p.digits), MaxDigits}), Min({p.w, MaxDigits}))
\* What the parser of pandas makes of a text: `ok` says that it reads a
\* number, `val` is the float and `int` says that the text has neither
\* point nor exponent.
PandasParsed(p, val) ==
    [ok |-> ~IsNull(val), val |-> val, int |-> p.int /\ ~IsNull(val),
     neg |-> p.neg, digits |-> p.digits]
PandasOf(p) == PandasParsed(p, PandasFloat(p))
PandasNumber(text) == PandasOf(ParseNumber(text, FALSE))
\* The parser of pd.to_numeric and pd.read_csv reads s as a number.
IsNumericText(s) == PandasNumber(s).ok

\* The bounds of np.int64 and np.uint64.
TwoTo63 == BShl(<<1>>, 63)
TwoTo64 == BShl(<<1>>, 64)
\* sign * m is an np.int64, an np.uint64.
InInt64(sign, m) == IF sign < 0 THEN BCmp(m, TwoTo63) <= 0 ELSE BCmp(m, TwoTo63) < 0
InUint64(sign, m) == (sign > 0 \/ m = <<>>) /\ BCmp(m, TwoTo64) < 0

\* The number a cell computes as: np.bool_ is the integer 0 or 1.
NumVal(x) == IF x.t = "bool" THEN IntCell("int", 1, BOf(x.v)) ELSE x
\* float(x) of a cell that holds a number.
ToDouble(x) == IF IsInteger(NumVal(x)) THEN Nearest(NumVal(x).v, NumVal(x).m, <<1>>) ELSE x

\* x / d of a float x and a small whole number d
DividedBy(x, d) ==
    IF x.t # "num" THEN x
    ELSE Nearest(x.v,
                 BShl(x.m, IF x.e > 0 THEN x.e ELSE 0),
                 BMulAdd(BShl(<<1>>, IF x.e < 0 THEN 0 - x.e ELSE 0), d, 0))

\* 2 * x: a float may overflow to an infinity, an integer of numpy wraps
\* around in its 64 binary digits, a str is repeated.
Twice(x) ==
    LET d == BMulAdd(x.m, 2, 0)
    IN  IF x.t = "str" THEN Str(x.s \o x.s)
        ELSE IF x.t = "num"
        THEN (IF x.m = <<>> THEN x
              ELSE IF BBitLen(x.m) + x.e > MaxExp THEN Inf(x.v)
              ELSE [x EXCEPT !.e = x.e + 1])
        ELSE IF x.t = "int"
        THEN (IF InInt64(x.v, d) THEN IntCell("int", x.v, d)
              ELSE IntCell("int", 0 - x.v, BSub(TwoTo64, d)))
        ELSE IF x.t = "uint"
        THEN IntCell("uint", 1, IF BCmp(d, TwoTo64) < 0 THEN d ELSE BSub(d, TwoTo64))
        ELSE x

\* |a| < |b| of two finite floats that are not 0
MagnitudeLess(a, b) ==
    IF BBitLen(a.m) + a.e # BBitLen(b.m) + b.e
    THEN BBitLen(a.m) + a.e < BBitLen(b.m) + b.e
    ELSE LET lo == IF a.e < b.e THEN a.e ELSE b.e
         IN  BCmp(BShl(a.m, a.e - lo), BShl(b.m, b.e - lo)) < 0
\* The sign of a float: -1, 0 or 1.
SignOf(x) == IF x.t # "inf" /\ x.m = <<>> THEN 0 ELSE x.v
\* a < b of two floats
FloatLess(a, b) ==
    IF IsNull(a) \/ IsNull(b) THEN FALSE
    ELSE IF IsInf(a) THEN a.v < 0 /\ ~(IsInf(b) /\ b.v < 0)
    ELSE IF IsInf(b) THEN b.v > 0
    ELSE IF SignOf(a) # SignOf(b) THEN SignOf(a) < SignOf(b)
    ELSE IF SignOf(a) = 0 THEN FALSE
    ELSE IF SignOf(a) > 0 THEN MagnitudeLess(a, b)
    ELSE MagnitudeLess(b, a)
\* a < b of two integers
IntLess(a, b) ==
    IF SignOf(a) # SignOf(b) THEN SignOf(a) < SignOf(b)
    ELSE IF SignOf(a) > 0 THEN BCmp(a.m, b.m) < 0
    ELSE BCmp(a.m, b.m) > 0
\* The ASCII characters from \t to ~ in their order (the grave accent,
\* which no text of the inputs holds, left out).
AsciiChars ==
    <<"\t", "\n", "", "\f", "\r", " ", "!", "\"", "#", "$", "%", "&",
      "'", "(", ")", "*", "+", ",", "-", ".", "/", "0", "1", "2",
      "3", "4", "5", "6", "7", "8", "9", ":", ";", "<", "=", ">",
      "?", "@", "A", "B", "C", "D", "E", "F", "G", "H", "I", "J",
      "K", "L", "M", "N", "O", "P", "Q", "R", "S", "T", "U", "V",
      "W", "X", "Y", "Z", "[", "\\", "]", "^", "_", "a", "b",
      "c", "d", "e", "f", "g", "h", "i", "j", "k", "l", "m", "n",
      "o", "p", "q", "r", "s", "t", "u", "v", "w", "x", "y", "z",
      "{", "|", "}", "~">>
Ord(ch) == CHOOSE i \in DOMAIN AsciiChars : AsciiChars[i] = ch
RECURSIVE StrLess(_, _)
\* s < u of two strs
StrLess(s, u) ==
    IF u = <<>> THEN FALSE
    ELSE IF s = <<>> THEN TRUE
    ELSE IF Head(s) = Head(u) THEN StrLess(Tail(s), Tail(u))
    ELSE Ord(Head(s)) < Ord(Head(u))

\* a < b of two strs or of two cells that hold numbers: integers of one
\* kind compare as integers, other numbers as floats.
Less(a, b) ==
    IF a.t = "str" /\ b.t = "str" THEN StrLess(a.s, b.s)
    ELSE IF IsInteger(NumVal(a)) /\ NumVal(a).t = NumVal(b).t
    THEN IntLess(NumVal(a), NumVal(b))
    ELSE FloatLess(ToDouble(a), ToDouble(b))

\* The text of the number sign * mag.
Signed(sign, mag) == (IF sign < 0 THEN <<"-">> ELSE <<>>) \o mag
\* The whole part of a finite float.
WholePart(n) == IF n.e >= 0 THEN BShl(n.m, n.e) ELSE BShr(n.m, 0 - n.e)
\* '%d' % n of an integer or a finite float n
FormatWhole(n, mag) == Signed(IF mag = <<>> THEN 1 ELSE n.v, BToText(mag))
\* '%d' % x: the whole part of the number, cut towards zero.
FormatD(x) ==
    FormatWhole(NumVal(x), IF NumVal(x).t = "num" THEN WholePart(NumVal(x)) ELSE NumVal(x).m)

\* The quotient q of h by 2^n, rounded to the nearest, ties to the even.
RoundedShift(h, n, q, half) ==
    IF half > 0 \/ (half = 0 /\ BIsOdd(q)) THEN BMulAdd(q, 1, 1) ELSE q
HalfShift(h, n, q) == BCmp(BMulAdd(BSub(h, BShl(q, n)), 2, 0), BShl(<<1>>, n))
\* h * 2^e rounded to a whole number
RoundHalfEven(h, e) ==
    IF e >= 0 THEN BShl(h, e)
    ELSE RoundedShift(h, 0 - e, BShr(h, 0 - e), HalfShift(h, 0 - e, BShr(h, 0 - e)))
\* The digits of a number of hundredths with the point set.
TwoPlaces(d) == SubSeq(d, 1, Len(d) - 2) \o <<".">> \o SubSeq(d, Len(d) - 1, Len(d))
PadLeft(d, n) == [i \in 1..(n - Len(d)) |-> "0"] \o d
\* '%.2f' % n of a float
FormatFloat2(n) ==
    IF IsNull(n) THEN sNan
    ELSE IF IsInf(n) THEN Signed(n.v, sInf)
    ELSE Signed(n.v, TwoPlaces(PadLeft(BToText(RoundHalfEven(BMulAdd(n.m, Hundred, 0), n.e)), 3)))
\* '%.2f' % x: the float rounded to hundredths, ties to the even digit.
FormatF2(x) == FormatFloat2(ToDouble(x))

(***************************************************************************)
(* '%s' % x of a float: the shortest decimal that float() reads back as x, *)
(* in fixed notation from 0.0001 to below 1e16 and with an exponent        *)
(* elsewhere.                                                              *)
(***************************************************************************)
MaxReprDigits == 17
\* 10^k <= a / b
PowerLe(a, b, k) ==
    IF k >= 0 THEN BCmp(BTimesPow10(b, k), a) <= 0
    ELSE BCmp(b, BTimesPow10(a, 0 - k)) <= 0
\* The decimal exponent k of a / b: 10^k <= a / b < 10^(k + 1).
DecimalExpNear(a, b, k0) ==
    CHOOSE k \in (k0 - 2)..(k0 + 2) : PowerLe(a, b, k) /\ ~PowerLe(a, b, k + 1)
DecimalExp(a, b) == DecimalExpNear(a, b, ((BBitLen(a) - BBitLen(b)) * 30103) \div 100000)
\* The whole part of a / 2^s * 10^p.
FloorScaled(a, s, p) ==
    IF p >= 0 THEN BShr(BTimesPow10(a, p), s) ELSE BDivPow10(BShr(a, s), 0 - p)
\* float() reads c * 10^(-p) back as the double x > 0.
ReadsBack(x, c, p) ==
    Nearest(1, BTimesPow10(c, IF p < 0 THEN 0 - p ELSE 0),
               BTimesPow10(<<1>>, IF p > 0 THEN p ELSE 0)) = x
\* a / 2^s is nearer to (c + 1) * 10^(-p) than to c * 10^(-p); of two that
\* are as near, the even one is taken.
UpperNearer(a, s, c, p) ==
    LET twice == BTimesPow10(BMulAdd(a, 2, 0), IF p > 0 THEN p ELSE 0)
        mid == BTimesPow10(BShl(BMulAdd(c, 2, 1), s), IF p < 0 THEN 0 - p ELSE 0)
    IN  BCmp(twice, mid) > 0 \/ (BCmp(twice, mid) = 0 /\ BIsOdd(c))
\* The decimal of x with n digits that is nearest to x, of those that read
\* back as x: its digits c and the place p of the last one; c is <<>> when
\* none reads back.
ReprCandidate(x, a, s, c, p) ==
    IF ReadsBack(x, c, p) /\ ReadsBack(x, BMulAdd(c, 1, 1), p)
    THEN [c |-> IF UpperNearer(a, s, c, p) THEN BMulAdd(c, 1, 1) ELSE c, p |-> p]
    ELSE IF ReadsBack(x, c, p) THEN [c |-> c, p |-> p]
    ELSE IF ReadsBack(x, BMulAdd(c, 1, 1), p) THEN [c |-> BMulAdd(c, 1, 1), p |-> p]
    ELSE [c |-> <<>>, p |-> p]
RECURSIVE ShortestFrom(_, _, _, _, _)
\* The shortest such decimal with n digits or more.
ShortestFrom(x, a, s, k, n) ==
    IF n < MaxReprDigits /\ ReprCandidate(x, a, s, FloorScaled(a, s, n - 1 - k), n - 1 - k).c = <<>>
    THEN ShortestFrom(x, a, s, k, n + 1)
    ELSE ReprCandidate(x, a, s, FloorScaled(a, s, n - 1 - k), n - 1 - k)
\* The shortest decimal of the double x > 0.
Shortest(x) ==
    ShortestFrom(x, BShl(x.m, IF x.e > 0 THEN x.e ELSE 0), IF x.e < 0 THEN 0 - x.e ELSE 0,
                 DecimalExp(BShl(x.m, IF x.e > 0 THEN x.e ELSE 0),
                            BShl(<<1>>, IF x.e < 0 THEN 0 - x.e ELSE 0)), 1)
\* The text of the decimal 0.<digits> * 10^point.
ReprText(digits, point) ==
    IF point > 16 \/ point < 0 - 3
    THEN <<Head(digits)>>
            \o (IF Len(digits) > 1 THEN <<".">> \o Tail(digits) ELSE <<>>)
            \o <<"e", IF point > 0 THEN "+" ELSE "-">>
            \o PadLeft(NatText(IF point > 0 THEN point - 1 ELSE 1 - point), 2)
    ELSE IF point <= 0
    THEN <<"0", ".">> \o [i \in 1..(0 - point) |-> "0"] \o digits
    ELSE IF point >= Len(digits)
    THEN digits \o [i \in 1..(point - Len(digits)) |-> "0"] \o <<".", "0">>
    ELSE SubSeq(digits, 1, point) \o <<".">> \o SubSeq(digits, point + 1, Len(digits))
ReprOf(d) == ReprText(RStrip(BToText(d.c), "0"), Len(BToText(d.c)) - d.p)
\* repr(x) of a float
Repr(x) ==
    IF IsNull(x) THEN sNan
    ELSE IF IsInf(x) THEN Signed(x.v, sInf)
    ELSE IF x.m = <<>> THEN Signed(x.v, <<"0", ".", "0">>)
    ELSE Signed(x.v, ReprOf(Shortest([x EXCEPT !.v = 1])))

\* '%s' % x of a cell: the text of a str, the digits of an integer, the
\* repr of a float, True or False.
FormatS(x) ==
    IF x.t = "str" THEN x.s
    ELSE IF x.t = "bool" THEN (IF x.v = 1 THEN sTrue ELSE sFalse)
    ELSE IF IsInteger(x) THEN FormatWhole(x, x.m)
    ELSE Repr(x)

(***************************************************************************)
(* DataFrames: the ordered column names, each column's dtype and cells.    *)
(***************************************************************************)
Range(f) == {f[i] : i \in DOMAIN f}
ColSet(df) == Range(df.columns)
NRows(df) == Len(df.data[sAbbr])

\* df[col] = cells, with the dtype of the assigned Series.
SetColumn(df, col, dt, cells) ==
    [df EXCEPT !.dtype[col] = dt, !.data[col] = cells]

\* pd.DataFrame(records) of records whose values went through str(): every
\* cell is a str and every column has dtype object.  Without records the
\* DataFrame has no column.
DataFrame(raw) ==
    IF \A c \in Range(raw.columns) : raw.data[c] = <<>>
    THEN [columns |-> <<>>, dtype |-> <<>>, data |-> <<>>]
    ELSE [columns |-> raw.columns,
          dtype |-> [c \in Range(raw.columns) |-> "object"],
          data |-> [c \in Range(raw.columns) |->
                       [i \in DOMAIN raw.data[c] |-> Str(raw.data[c][i])]]]

\* Fields pd.read_csv reads as NaN.
NaTexts ==
    {<<>>,
     <<"#", "N", "/", "A">>,
     <<"#", "N", "/", "A", " ", "N", "/", "A">>,
     <<"#", "N", "A">>,
     <<"-", "1", ".", "#", "I", "N", "D">>,
     <<"-", "1", ".", "#", "Q", "N", "A", "N">>,
     <<"-", "N", "a", "N">>,
     <<"-", "n", "a", "n">>,
     <<"1", ".", "#", "I", "N", "D">>,
     <<"1", ".", "#", "Q", "N", "A", "N">>,
     <<"<", "N", "A", ">">>,
     <<"N", "/", "A">>,
     <<"N", "A">>,
     <<"N", "U", "L", "L">>,
     <<"N", "a", "N">>,
     <<"n", "/", "a">>,
     <<"n", "a", "n">>,
     <<"n", "u", "l", "l">>}
\* Fields pd.read_csv reads as True and as False: the words in any case.
IsTrueText(s) == Lower(s) = Lower(sTrue)
IsFalseText(s) == Lower(s) = Lower(sFalse)

\* The whole number a parsed integer text denotes, without its sign, and
\* its sign.
Magnitude(p) == BFromDigits(LStrip(p.digits, "0"), <<>>)
SignOfText(p) == IF p.neg THEN 0 - 1 ELSE 1
FitsInt64(p) == InInt64(SignOfText(p), Magnitude(p))
FitsUint64(p) == InUint64(SignOfText(p), Magnitude(p))

\* The digits a text starts with.
DigitRun(s) ==
    IF \A i \in DOMAIN s : IsDigit(s[i]) THEN s
    ELSE SubSeq(s, 1, Min({i \in DOMAIN s : ~IsDigit(s[i])}) - 1)
\* What the integer converters of pd.read_csv read of a field: white space,
\* a sign, the digits, and the rest of the field.
IntBody(neg, body) ==
    [neg |-> neg,
     digits |-> DigitRun(body),
     rest |-> LStripSpace(SubSeq(body, Len(DigitRun(body)) + 1, Len(body)))]
IntField(s, signs) ==
    IntBody(Negative(s), IF s # <<>> /\ Head(s) \in signs THEN Tail(s) ELSE s)
\* The error of the int64 converter for a field, "" for none: the digits
\* overflow before the rest of the field is looked at.
Int64ErrorOf(f) ==
    IF f.digits = <<>> THEN "digits"
    ELSE IF ~FitsInt64(f) THEN "overflow"
    ELSE IF f.rest # <<>> THEN "chars"
    ELSE ""
Int64Error(s) == Int64ErrorOf(IntField(LStripSpace(s), {"+", "-"}))
\* The same of the uint64 converter, which reads no more of a field that
\* starts with a minus sign.
Uint64ErrorOf(f) ==
    IF f.neg THEN ""
    ELSE IF f.digits = <<>> THEN "digits"
    ELSE IF ~FitsUint64(f) THEN "overflow"
    ELSE IF f.rest # <<>> THEN "chars"
    ELSE ""
Uint64Error(s) == Uint64ErrorOf(IntField(LStripSpace(s), {"+"}))
\* The whole number of a field the int64 converter reads.
IntOfField(s) ==
    IntCell("int", SignOfText(IntField(LStripSpace(s), {"+", "-"})),
            Magnitude(IntField(LStripSpace(s), {"+", "-"})))
\* The same as a float: an integer column with a NaN is cast to float64,
\* and the casted -2^63, which marks the NaN in the integers, becomes NaN.
FloatOfIntField(x) ==
    IF x.v < 0 /\ Nearest(1, x.m, <<1>>) = Nearest(1, TwoTo63, <<1>>) THEN NaN
    ELSE Nearest(x.v, x.m, <<1>>)

\* The first error a converter meets in a column, "" for none; it does not
\* look at the fields that are NaN.
FirstError(errors) ==
    IF \A i \in DOMAIN errors : errors[i] = "" THEN ""
    ELSE errors[Min({i \in DOMAIN errors : errors[i] # ""})]
Int64Errors(fields) ==
    [i \in DOMAIN fields |-> IF fields[i] \in NaTexts THEN "" ELSE Int64Error(fields[i])]
Uint64Errors(fields) ==
    [i \in DOMAIN fields |-> IF fields[i] \in NaTexts THEN "" ELSE Uint64Error(fields[i])]
\* The fields that are given are all numbers, all booleans.
AllFloats(fields) ==
    \A i \in DOMAIN fields : fields[i] \in NaTexts \/ IsNumericText(fields[i])
AllBools(fields) ==
    \A i \in DOMAIN fields :
        fields[i] \in NaTexts \/ IsTrueText(fields[i]) \/ IsFalseText(fields[i])
HasNa(fields) == \E i \in DOMAIN fields : fields[i] \in NaTexts

\* The column after the int64 converter has failed on a field that is no
\* whole number: float64, then bool, then object.
CsvLaterKind(fields) ==
    IF AllFloats(fields) THEN "float"
    ELSE IF AllBools(fields) THEN (IF HasNa(fields) THEN "boolna" ELSE "bool")
    ELSE "object"
\* The column after the int64 converter has overflowed: the uint64
\* converter reads it, unless a field overflows it too, a field is negative
\* or, together with a number above 2^63 - 1, NaN; then the fields stay
\* strs, and with the last of these ("raw") the fields that are NaN too.
CsvUintKindOf(fields, error) ==
    LET big == \E i \in DOMAIN fields :
                  /\ fields[i] \notin NaTexts
                  /\ ~Negative(LStripSpace(fields[i]))
                  /\ ~FitsInt64(IntField(LStripSpace(fields[i]), {"+"}))
        sint == \E i \in DOMAIN fields :
                  fields[i] \notin NaTexts /\ Negative(LStripSpace(fields[i]))
    IN  IF error = "overflow" THEN "object"
        ELSE IF error # "" THEN CsvLaterKind(fields)
        ELSE IF big /\ (sint \/ HasNa(fields)) THEN "raw"
        ELSE IF sint THEN "object"
        ELSE "uint64"
CsvUintKind(fields) == CsvUintKindOf(fields, FirstError(Uint64Errors(fields)))
\* The column by the first error of the int64 converter.
CsvKindOf(fields, error) ==
    IF error = "" THEN (IF HasNa(fields) THEN "intna" ELSE "int64")
    ELSE IF error = "overflow" THEN CsvUintKind(fields)
    ELSE CsvLaterKind(fields)
\* How pd.read_csv converts a column of fields: it tries int64, float64,
\* bool and object in this order; a file without rows gives object columns.
CsvKind(fields) ==
    IF fields = <<>> THEN "object" ELSE CsvKindOf(fields, FirstError(Int64Errors(fields)))

\* The dtype of a column converted that way.
CsvDtype(kind) ==
    IF kind \in {"int64", "uint64", "bool"} THEN kind
    ELSE IF kind \in {"intna", "float"} THEN "float64"
    ELSE "object"
\* The dtype pd.read_csv infers for a column of fields.
ReadCsvDtype(fields) == CsvDtype(CsvKind(fields))

\* The cell of a field of a column converted that way.
CsvCell(field, kind) ==
    IF kind = "raw" THEN Str(field)
    ELSE IF field \in NaTexts THEN NaN
    ELSE IF kind = "int64" THEN IntOfField(field)
    ELSE IF kind = "intna" THEN FloatOfIntField(IntOfField(field))
    ELSE IF kind = "uint64"
    THEN IntCell("uint", 1, Magnitude(IntField(LStripSpace(field), {"+"})))
    ELSE IF kind = "float" THEN PandasNumber(field).val
    ELSE IF kind \in {"bool", "boolna"} THEN Bool(IsTrueText(field))
    ELSE Str(field)
CsvCells(fields, kind) == [i \in DOMAIN fields |-> CsvCell(fields[i], kind)]
\* The cells pd.read_csv makes of a column of fields.
ReadCsvCells(fields) == CsvCells(fields, CsvKind(fields))

\* The DataFrame of the columns converted that way.
ReadCsvOf(raw, kinds) ==
    [columns |-> raw.columns,
     dtype |-> [c \in Range(raw.columns) |-> CsvDtype(kinds[c])],
     data |-> [c \in Range(raw.columns) |-> CsvCells(raw.data[c], kinds[c])]]
\* pd.read_csv(_EXISTING_CSV_URL)
ReadCsv(raw) == ReadCsvOf(raw, [c \in Range(raw.columns) |-> CsvKind(raw.data[c])])

(***************************************************************************)
(* Series operations used by the normalization.                            *)
(***************************************************************************)
\* lib.infer_dtype(values, skipna=True), which the .str accessor validates.
InferType(cells) ==
    LET kinds == {cells[i].t : i \in {j \in DOMAIN cells : ~IsNull(cells[j])}}
    IN  IF kinds = {} THEN "empty"
        ELSE IF kinds = {"str"} THEN "string"
        ELSE IF kinds = {"bool"} THEN "boolean"
        ELSE IF kinds \subseteq {"int", "uint"} THEN "integer"
        ELSE IF kinds \subseteq {"num", "inf"} THEN "floating"
        ELSE IF kinds \subseteq {"int", "uint", "num", "inf"} THEN "mixed-integer-float"
        ELSE IF kinds \cap {"int", "uint"} # {} THEN "mixed-integer"
        ELSE "mixed"

\* df[col].str is allowed (it raises AttributeError otherwise).
StrAccessorOk(cells) == InferType(cells) \in {"string", "empty", "mixed", "mixed-integer"}

\* df[col].str.replace(old, new): a cell that is no str becomes NaN.
SeriesStrReplace(cells, old, new) ==
    [i \in DOMAIN cells |->
        IF cells[i].t = "str" THEN Str(StrReplace(cells[i].s, old, new)) ELSE NaN]

\* pd.to_numeric can convert the text that its parser reads as p: it takes
\* a text for a whole number when the parser has read neither point nor
\* exponent (white space around the digits is allowed).
TextNumericOk(p) == p.ok /\ (p.int => FitsInt64(p) \/ FitsUint64(p))
\* pd.to_numeric can convert the cell: an empty str converts to NaN, a text
\* that the parser reads as no number raises ValueError, and so does the
\* text of a whole number below -2^63 or above 2^64 - 1.
NumericOkOf(x, p) == x.t # "str" \/ x.s = <<>> \/ TextNumericOk(p)
NumericOk(x) == NumericOkOf(x, PandasNumber(x.s))

\* What the parser of pandas makes of the text of each cell.
ParseCells(cells) == [i \in DOMAIN cells |-> PandasNumber(cells[i].s)]
NumericDtypeOf(cells, parsed) ==
    LET ints == {i \in DOMAIN cells : cells[i].t = "str" /\ parsed[i].int}
        null == \E i \in DOMAIN cells : IsNull(cells[i]) \/ cells[i] = Str(<<>>)
        uint == \E i \in ints : ~FitsInt64(parsed[i])
        sint == \E i \in ints : parsed[i].neg /\ Magnitude(parsed[i]) # <<>>
    IN  IF uint /\ (null \/ sint) THEN "object"
        ELSE IF null \/ ints # DOMAIN cells THEN "float64"
        ELSE IF uint THEN "uint64"
        ELSE "int64"
\* The dtype of pd.to_numeric(series).  The result is float64 when a cell
\* is null or no whole number, uint64 when a whole number is above
\* 2^63 - 1, else int64; a whole number above 2^63 - 1 together with a null
\* or a negative one leaves the Series as it is.
NumericDtype(cells) == NumericDtypeOf(cells, ParseCells(cells))

NumericCellOf(x, p, dtype) ==
    IF x.t # "str" \/ dtype = "object" THEN x
    ELSE IF x.s = <<>> THEN NaN
    ELSE IF dtype = "int64" THEN IntCell("int", SignOfText(p), Magnitude(p))
    ELSE IF dtype = "uint64" THEN IntCell("uint", 1, Magnitude(p))
    ELSE p.val
\* The cells of pd.to_numeric(series) for a result of that dtype.
ToNumericOf(cells, parsed, dtype) ==
    [i \in DOMAIN cells |-> NumericCellOf(cells[i], parsed[i], dtype)]
ToNumericParsed(cells, parsed) == ToNumericOf(cells, parsed, NumericDtypeOf(cells, parsed))
\* pd.to_numeric(series)
ToNumeric(cells) == ToNumericParsed(cells, ParseCells(cells))

(***************************************************************************)
(* The state of one run of make_output_string.                             *)
(***************************************************************************)
VARIABLES
    new_df,         \* the current spreadsheet
    existing_df,    \* the snapshot read from GitHub
    loaded,         \* <<new_df, existing_df>> as they were loaded
    numeric_cols,
    percent_cols,
    ci,             \* position in numeric_cols or percent_cols (a for loop)
    di,             \* 1: new_df, 2: existing_df (the inner for loop)
    k,              \* row of existing_df the per-state loop is at
    out,            \* the lines appended so far
    ret,            \* the returned report, NoReport until the run returns
    err,            \* the exception the run raised, "" while there is none
    errline,        \* the line of bi_checks.py that raised it, 0 while there is none
    pc

vars == <<new_df, existing_df, loaded, numeric_cols, percent_cols, ci, di, k,
          out, ret, err, errline, pc>>

NoReport == <<"no report">>

(***************************************************************************)
(* Classification (lines 54-63).                                           *)
(***************************************************************************)
\* list(columns).index(name), from 1; 0 stands for the ValueError.
IndexOf(columns, name) ==
    IF \E i \in DOMAIN columns : columns[i] = name
    THEN CHOOSE i \in DOMAIN columns :
            columns[i] = name /\ \A j \in 1..(i - 1) : columns[j] # name
    ELSE 0

\* new_df.columns[first_numeric_col:last_numeric_col+1]
PossibleNumericCols(columns) ==
    SubSeq(columns, IndexOf(columns, first_numeric_colname),
                    IndexOf(columns, last_numeric_colname))

IsPercentCol(x) == Contains(x, sPercent)
IsNumericCol(x) == ~Contains(x, sPercent)

PercentCols(columns) == SelectSeq(PossibleNumericCols(columns), IsPercentCol)
NumericCols(columns) == SelectSeq(PossibleNumericCols(columns), IsNumericCol)

\* Where the run goes on after a loop that has nothing (left) to do.
AfterPercent == "statediff"
AfterNumeric(pcols) == IF pcols = <<>> THEN AfterPercent ELSE "percent"
AfterClassify(ncols, pcols) == IF ncols = <<>> THEN AfterNumeric(pcols) ELSE "numeric"

\* The lookup of the last boundary column left out.
BoundaryMissing_FirstOnly(columns) == IndexOf(columns, first_numeric_colname) = 0

\* One of the two list.index calls raises ValueError.
BoundaryMissing(columns) ==
    \/ IndexOf(columns, first_numeric_colname) = 0
    \/ IndexOf(columns, last_numeric_colname) = 0

Classify ==
    /\ pc = "classify"
    /\ LET columns == new_df.columns
           missing == BoundaryMissing(columns)
       IN  /\ numeric_cols' = IF missing THEN <<>> ELSE NumericCols(columns)
           /\ percent_cols' = IF missing THEN <<>> ELSE PercentCols(columns)
           /\ err' = IF missing THEN "ValueError" ELSE ""
           /\ errline' = IF ~missing THEN 0
                         ELSE IF IndexOf(columns, first_numeric_colname) = 0 THEN 56
                         ELSE 57
           /\ pc' = IF missing THEN "raised"
                    ELSE AfterClassify(NumericCols(columns), PercentCols(columns))
    /\ ci' = 1
    /\ di' = 1
    /\ UNCHANGED <<new_df, existing_df, loaded, k, out, ret>>

(***************************************************************************)
(* Normalization (lines 66-92).                                            *)
(***************************************************************************)
\* Line 75 for the cells the two replacements have left.
NumericConverted(df, col, cells, parsed) ==
    IF \E i \in DOMAIN cells : ~NumericOkOf(cells[i], parsed[i])
    THEN [df |-> SetColumn(df, col, "object", cells), err |-> "ValueError", line |-> 75]
    ELSE [df |-> SetColumn(df, col, NumericDtypeOf(cells, parsed),
                           ToNumericParsed(cells, parsed)),
          err |-> "", line |-> 0]
NumericConvert(df, col, cells) == NumericConverted(df, col, cells, ParseCells(cells))

\* The body of the numeric loop for one column of one DataFrame: the
\* DataFrame it leaves and the exception it raises ("" for none).
NumericStep(df, col) ==
    IF col \notin ColSet(df) THEN [df |-> df, err |-> "", line |-> 0]
    ELSE IF df.dtype[col] # "object" THEN [df |-> df, err |-> "", line |-> 0]
    ELSE IF ~StrAccessorOk(df.data[col])
    THEN [df |-> df, err |-> "AttributeError", line |-> 72]
    ELSE NumericConvert(df, col,
                        SeriesStrReplace(SeriesStrReplace(df.data[col], ",", <<>>),
                                         "X", <<"1">>))

\* p2f(x): the try block, and NaN for whatever it raises.
p2f(x) ==
    IF IsNull(x) THEN NaN
    ELSE IF x.t # "str" THEN NaN
    ELSE LET text == StrStrip(x.s, "%")
         IN  IF IsFloatText(text)
             THEN DividedBy(FloatOf(ParseNumber(text, TRUE)), Hundred)
             ELSE NaN

\* df[col].apply(p2f)
ApplyP2f(cells) == [i \in DOMAIN cells |-> p2f(cells[i])]

\* The dtype of df[col].apply(p2f): float64, and the dtype of the Series
\* when it has no cell.
AppliedDtype(cells, dtype) == IF cells = <<>> THEN dtype ELSE "float64"

\* The body of the percent loop for one column of one DataFrame.
PercentStep(df, col) ==
    IF col \notin ColSet(df) THEN [df |-> df, err |-> "", line |-> 0]
    ELSE IF df.dtype[col] = "object"
    THEN (IF ~StrAccessorOk(df.data[col])
          THEN [df |-> df, err |-> "AttributeError", line |-> 91]
          ELSE [df |-> SetColumn(df, col, AppliedDtype(df.data[col], "object"),
                          ApplyP2f(SeriesStrReplace(df.data[col], "X", <<"1">>))),
                err |-> "", line |-> 0])
    ELSE [df |-> SetColumn(df, col, AppliedDtype(df.data[col], df.dtype[col]),
                           ApplyP2f(df.data[col])),
          err |-> "", line |-> 0]

\* One pass of the body of a normalization loop, and the loop's bookkeeping.
LoopStep(cols, r, after) ==
    /\ new_df' = IF di = 1 THEN r.df ELSE new_df
    /\ existing_df' = IF di = 2 THEN r.df ELSE existing_df
    /\ err' = r.err
    /\ errline' = r.line
    /\ ci' = IF di = 1 THEN ci ELSE IF ci = Len(cols) THEN 1 ELSE ci + 1
    /\ di' = IF di = 1 THEN 2 ELSE 1
    /\ pc' = IF r.err # "" THEN "raised"
             ELSE IF di = 2 /\ ci = Len(cols) THEN after
             ELSE pc

NormalizeNumeric ==
    /\ pc = "numeric"
    /\ LoopStep(numeric_cols,
                NumericStep(IF di = 1 THEN new_df ELSE existing_df, numeric_cols[ci]),
                AfterNumeric(percent_cols))
    /\ UNCHANGED <<loaded, numeric_cols, percent_cols, k, out, ret>>

NormalizePercent ==
    /\ pc = "percent"
    /\ LoopStep(percent_cols,
                PercentStep(IF di = 1 THEN new_df ELSE existing_df, percent_cols[ci]),
                AfterPercent)
    /\ UNCHANGED <<loaded, numeric_cols, percent_cols, k, out, ret>>

(***************************************************************************)
(* The report: a line is its comma-separated fields.  `nf` is the number   *)
(* of fields the line has, `fmt` and `args` are the format of its last     *)
(* field and the texts of the numbers printed in it.                       *)
(***************************************************************************)
Line(state, issue, metric, fmt, args, nf) ==
    [state |-> state, issue |-> issue, metric |-> metric, fmt |-> fmt,
     args |-> args, nf |-> nf]

\* 'State,Issue,Metric,Details\n'
HeaderLine ==
    Line(<<"S", "t", "a", "t", "e">>, "Issue", <<"M", "e", "t", "r", "i", "c">>,
         "Details", <<>>, 4)

\* '%s,State removed!\n' % state
StateRemovedLine(state) == Line(state, "State removed!", <<>>, "", <<>>, 2)
\* '%s,State added\n' % state
StateAddedLine(state) == Line(state, "State added", <<>>, "", <<>>, 2)
\* 'All,New column added,%s\n' % col
ColumnAddedLine(col) == Line(sAll, "New column added", col, "", <<>>, 3)
\* 'All,Column removed,%s\n' % col
ColumnRemovedLine(col) == Line(sAll, "Column removed", col, "", <<>>, 3)

\* The orders in which a for loop may visit a set.
Orders(S) ==
    {o \in [1..Cardinality(S) -> S] : \A i, j \in DOMAIN o : i # j => o[i] # o[j]}

\* The lines a loop over `order` appends, one per element.
StateRemovedLines(order) ==
    [i \in DOMAIN order |-> StateRemovedLine(FormatS(existing_df.data[sAbbr][order[i]]))]
StateAddedLines(order) ==
    [i \in DOMAIN order |-> StateAddedLine(FormatS(new_df.data[sAbbr][order[i]]))]
ColumnAddedLines(order) == [i \in DOMAIN order |-> ColumnAddedLine(order[i])]
ColumnRemovedLines(order) == [i \in DOMAIN order |-> ColumnRemovedLine(order[i])]

\* The filter on the export artifacts left out.
SkipUnnamed_Never(col) == FALSE

\* col.startswith('Unnamed'): the loop goes on to the next column.
SkipUnnamed(col) == StartsWith(col, sUnnamed)
KeepColumn(col) == ~SkipUnnamed(col)

\* a == b of two state identifiers: NaN equals nothing, a str equals no
\* number, and the two zeros of the floats are equal.
IdEqual(a, b) ==
    /\ ~IsNull(a)
    /\ ~IsNull(b)
    /\ a = b \/ (a.t = "num" /\ b.t = "num" /\ a.m = <<>> /\ b.m = <<>>)
\* Rows i and j of df.Abbr are one element of set(df.Abbr): the values are
\* equal, or both are the one NaN object of an object column (each NaN of a
\* float64 column is an object of its own).
SameElement(df, i, j) ==
    \/ IdEqual(df.data[sAbbr][i], df.data[sAbbr][j])
    \/ /\ df.dtype[sAbbr] = "object"
       /\ IsNull(df.data[sAbbr][i])
       /\ IsNull(df.data[sAbbr][j])
\* set(df.Abbr), as the rows that hold its elements: the first row of each.
StateSet(df) == {i \in 1..NRows(df) : \A j \in 1..(i - 1) : ~SameElement(df, j, i)}
\* state in set(df.Abbr), for a state of the other DataFrame
InStateSet(df, state) == \E i \in 1..NRows(df) : IdEqual(df.data[sAbbr][i], state)

\* Rows of new_df.
states_added ==
    {i \in StateSet(new_df) : ~InStateSet(existing_df, new_df.data[sAbbr][i])}
\* Rows of existing_df.
states_dropped ==
    {i \in StateSet(existing_df) : ~InStateSet(new_df, existing_df.data[sAbbr][i])}
columns_added == ColSet(new_df) \ ColSet(existing_df)
columns_removed == ColSet(existing_df) \ ColSet(new_df)

\* Lines 99-109: df.Abbr raises AttributeError for a DataFrame without that
\* column.
StateDiff ==
    /\ pc = "statediff"
    /\ IF sAbbr \notin ColSet(new_df) \/ sAbbr \notin ColSet(existing_df)
       THEN /\ err' = "AttributeError"
            /\ errline' = IF sAbbr \notin ColSet(new_df) THEN 100 ELSE 101
            /\ pc' = "raised"
            /\ out' = out
       ELSE /\ \E dropped \in Orders(states_dropped), added \in Orders(states_added) :
                  out' = out \o <<HeaderLine>>
                             \o StateRemovedLines(dropped)
                             \o StateAddedLines(added)
            /\ pc' = "coldiff"
            /\ UNCHANGED <<err, errline>>
    /\ UNCHANGED <<new_df, existing_df, loaded, numeric_cols, percent_cols, ci, di, k, ret>>

\* Lines 111-125, and line 128 for an existing_df without rows.
ColumnDiff ==
    /\ pc = "coldiff"
    /\ \E added \in Orders(columns_added), removed \in Orders(columns_removed) :
          out' = out \o ColumnAddedLines(SelectSeq(added, KeepColumn))
                     \o ColumnRemovedLines(SelectSeq(removed, KeepColumn))
    /\ pc' = IF NRows(existing_df) = 0 THEN "return" ELSE "states"
    /\ k' = 1
    /\ UNCHANGED <<new_df, existing_df, loaded, numeric_cols, percent_cols, ci, di,
                   ret, err, errline>>

(***************************************************************************)
(* The per-state comparison (lines 128-178).                               *)
(***************************************************************************)
\* The rows df.loc[df.Abbr == state] selects.
RowsOf(df, state) == {i \in 1..NRows(df) : IdEqual(df.data[sAbbr][i], state)}
HasRow(df, state) == RowsOf(df, state) # {}
\* row[col].iloc[0]
FirstCell(df, state, col) ==
    df.data[col][CHOOSE i \in RowsOf(df, state) : \A j \in RowsOf(df, state) : i <= j]

\* Line 131: '%s' % state of the state old_row starts with.
StateText(state) == FormatS(FirstCell(existing_df, state, sAbbr))

\* col in old_row and col in new_row
InBoth(col) == col \in ColSet(existing_df) /\ col \in ColSet(new_df)

\* The test of the old value left out.
NewMetric_IgnoresOld(old_value, new_value) == ~IsNull(new_value)
\* The whitelist left out.
CumulativeDecrease_NoWhitelist(col, old_value, new_value) ==
    Less(new_value, old_value)

\* Line 140
LostMetric(old_value, new_value) == IsNull(new_value) /\ ~IsNull(old_value)
\* Line 145
NewMetric(old_value, new_value) == ~IsNull(new_value) /\ IsNull(old_value)
\* Line 149
SkipMagnitude(old_value, new_value) == IsNull(new_value) \/ IsNull(old_value)
\* Lines 153-156
CumulativeDecrease(col, old_value, new_value) ==
    Less(new_value, old_value) /\ col \notin whitelist_cols
\* Line 161
BigIncrease(old_value, new_value) == Less(Twice(NumVal(old_value)), new_value)

\* A cell %d cannot print: an infinity (OverflowError) or a str (TypeError).
Unprintable(x) == IsInf(x) \/ x.t = "str"
PrintError(x) == IF x.t = "str" THEN "TypeError" ELSE "OverflowError"
NoError == [err |-> "", line |-> 0]

\* What the body of the numeric loop raises for one column, and at which
\* line: a str does not compare with a number (line 153), and %d raises for
\* the first operand it cannot print.  The body appends nothing before it.
NumericColError(state, col) ==
    LET old_value == FirstCell(existing_df, state, col)
        new_value == FirstCell(new_df, state, col)
        first == IF Unprintable(old_value) THEN old_value ELSE new_value
        unprintable == Unprintable(old_value) \/ Unprintable(new_value)
    IN  IF LostMetric(old_value, new_value)
        THEN (IF Unprintable(old_value)
              THEN [err |-> PrintError(old_value), line |-> 141] ELSE NoError)
        ELSE IF NewMetric(old_value, new_value)
        THEN (IF Unprintable(new_value)
              THEN [err |-> PrintError(new_value), line |-> 146] ELSE NoError)
        ELSE IF SkipMagnitude(old_value, new_value) THEN NoError
        ELSE IF (old_value.t = "str") # (new_value.t = "str")
        THEN [err |-> "TypeError", line |-> 153]
        ELSE IF CumulativeDecrease(col, old_value, new_value) /\ unprintable
        THEN [err |-> PrintError(first), line |-> 157]
        ELSE IF BigIncrease(old_value, new_value) /\ unprintable
        THEN [err |-> PrintError(first), line |-> 162]
        ELSE NoError

RECURSIVE NumericError(_, _)
\* The same of the whole numeric loop.
NumericError(state, cols) ==
    IF cols = <<>> THEN NoError
    ELSE IF InBoth(Head(cols)) /\ NumericColError(state, Head(cols)).err # ""
    THEN NumericColError(state, Head(cols))
    ELSE NumericError(state, Tail(cols))

\* The lines the body of the numeric loop appends for one column.
NumericColLines(state, col) ==
    LET old_value == FirstCell(existing_df, state, col)
        new_value == FirstCell(new_df, state, col)
        old_d == FormatD(old_value)
        new_d == FormatD(new_value)
    IN  (IF LostMetric(old_value, new_value)
         THEN <<Line(StateText(state), "Lost metric", col, "Old value %d", <<old_d>>, 4)>>
         ELSE <<>>)
        \o (IF NewMetric(old_value, new_value)
            THEN <<Line(StateText(state), "New metric", col, "New value %d", <<new_d>>, 4)>>
            ELSE <<>>)
        \o (IF SkipMagnitude(old_value, new_value) THEN <<>>
            ELSE (IF CumulativeDecrease(col, old_value, new_value)
                  THEN <<Line(StateText(state), "Cumulative decrease", col, "%d -> %d",
                              <<old_d, new_d>>, 4)>>
                  ELSE <<>>)
                 \o (IF BigIncrease(old_value, new_value)
                     THEN <<Line(FormatS(FirstCell(new_df, state, sAbbr)), ">2x increase",
                                 col, "%d -> %d", <<old_d, new_d>>, 4)>>
                     ELSE <<>>))

\* The lines the body of the percent loop appends for one column.
PercentColLines(state, col) ==
    LET old_value == FirstCell(existing_df, state, col)
        new_value == FirstCell(new_df, state, col)
    IN  (IF LostMetric(old_value, new_value)
         THEN <<Line(StateText(state), "Lost metric", col, "Old value %.2f",
                     <<FormatF2(old_value)>>, 4)>>
         ELSE <<>>)
        \o (IF NewMetric(old_value, new_value)
            THEN <<Line(StateText(state), "New metric", col, "New value %.2f",
                        <<FormatF2(new_value)>>, 4)>>
            ELSE <<>>)

RECURSIVE NumericLines(_, _)
NumericLines(state, cols) ==
    IF cols = <<>> THEN <<>>
    ELSE IF InBoth(Head(cols)) /\ NumericColError(state, Head(cols)).err # "" THEN <<>>
    ELSE (IF InBoth(Head(cols)) THEN NumericColLines(state, Head(cols)) ELSE <<>>)
         \o NumericLines(state, Tail(cols))

RECURSIVE PercentLines(_, _)
PercentLines(state, cols) ==
    IF cols = <<>> THEN <<>>
    ELSE (IF InBoth(Head(cols)) THEN PercentColLines(state, Head(cols)) ELSE <<>>)
         \o PercentLines(state, Tail(cols))

\* The percent loop run before the numeric loop.
StateLines_PercentFirst(state) ==
    PercentLines(state, percent_cols) \o NumericLines(state, numeric_cols)

\* The lines the body of the per-state loop appends for one state, up to
\* the line that raises.
StateLines(state) ==
    NumericLines(state, numeric_cols)
        \o (IF NumericError(state, numeric_cols).err # "" THEN <<>>
            ELSE PercentLines(state, percent_cols))

\* .iloc[0] raises IndexError: old_row is empty (line 131: the state is NaN,
\* which equals no row), or new_row is empty and some metric column is in
\* both DataFrames.  No line of the state is appended before it.
StateRaises(state) ==
    \/ ~HasRow(existing_df, state)
    \/ /\ ~HasRow(new_df, state)
       /\ \E i \in DOMAIN (numeric_cols \o percent_cols) :
             InBoth((numeric_cols \o percent_cols)[i])

\* The line that raises it: line 131, or new_row[col].iloc[0] in the numeric
\* loop or in the percent loop.
StateRaisesAt(state) ==
    IF ~HasRow(existing_df, state) THEN 131
    ELSE IF \E i \in DOMAIN numeric_cols : InBoth(numeric_cols[i]) THEN 137
    ELSE 170

\* What the body of the per-state loop raises for one state, and where.
StateError(state) ==
    IF StateRaises(state) THEN [err |-> "IndexError", line |-> StateRaisesAt(state)]
    ELSE NumericError(state, numeric_cols)

\* One pass of the loop of line 128 over the rows of existing_df.
CheckState ==
    /\ pc = "states"
    /\ LET state == existing_df.data[sAbbr][k]
       IN  /\ out' = IF StateRaises(state) THEN out ELSE out \o StateLines(state)
           /\ err' = StateError(state).err
           /\ errline' = StateError(state).line
           /\ pc' = IF StateError(state).err # "" THEN "raised"
                    ELSE IF k = NRows(existing_df) THEN "return"
                    ELSE "states"
           /\ k' = IF StateError(state).err # "" THEN k ELSE k + 1
    /\ UNCHANGED <<new_df, existing_df, loaded, numeric_cols, percent_cols, ci, di, ret>>

\* Line 180.
Return ==
    /\ pc = "return"
    /\ ret' = out
    /\ pc' = "done"
    /\ UNCHANGED <<new_df, existing_df, loaded, numeric_cols, percent_cols, ci, di, k,
                   out, err, errline>>

(***************************************************************************)
(* The datasets a run may load.                                            *)
(***************************************************************************)
\* The fields of a sheet or CSV file: cells[c][i] is the text of column c in
\* row i, and the Abbr column holds the state identifiers.
Raw(columns, states, cells) ==
    [columns |-> columns,
     data |-> [c \in Range(columns) |-> IF c = sAbbr THEN states ELSE cells[c]]]

\* Column orders of the new sheet: the full one, one with a trailing column,
\* one with an export artifact and no percent column, one without each
\* boundary column, and one whose boundary columns are in the other order.
NewLayouts ==
    {<<sAbbr, first_numeric_colname, cBIPercent, last_numeric_colname>>,
     <<sAbbr, first_numeric_colname, cBIPercent, last_numeric_colname, cNotes>>,
     <<sAbbr, first_numeric_colname, last_numeric_colname, cUnnamedNew>>,
     <<sAbbr, cBIPercent, last_numeric_colname>>,
     <<sAbbr, first_numeric_colname, cBIPercent>>,
     <<sAbbr, last_numeric_colname, first_numeric_colname>>}

\* Column orders of the existing snapshot.
ExistingLayouts ==
    {<<sAbbr, first_numeric_colname, cBIPercent, last_numeric_colname>>,
     <<sAbbr, first_numeric_colname, cBIPercent, last_numeric_colname, cUnnamedOld, cNotes>>,
     <<sAbbr, cBIPercent, cUnnamedOld, cNotes>>,
     <<sAbbr, cNotes>>}

BaseLayout == <<sAbbr, first_numeric_colname, cBIPercent, last_numeric_colname>>

\* The Abbr column: up to MaxRows different states, in any order.
StateSeqs ==
    UNION {{s \in [1..n -> States] : \A i, j \in 1..n : i # j => s[i] # s[j]} :
              n \in 1..MaxRows}

sAbc == <<"a", "b", "c">>
IntTexts == {IntText(n) : n \in (0 - MaxVal)..MaxVal}
\* Texts of numbers that are not the plain digits of a whole number.
s2p5 == <<"2", ".", "5">>
s1p5 == <<"1", ".", "5">>
sPlus3 == <<"+", "3">>
s1e1 == <<"1", "e", "1">>
s1u0 == <<"1", "_", "0">>
s45p50Pct == <<"4", "5", ".", "5", "0", "%">>
sPlus3Pct == <<"+", "3", "%">>
sSpace3Pct == <<" ", "3", "%">>
sInfPct == <<"i", "n", "f", "%">>
sNanPct == <<"n", "a", "n", "%">>
s0p5 == <<"0", ".", "5">>

\* The fields of the cells that are not varied.
NewDefault(c, i) ==
    IF c = first_numeric_colname THEN <<"3">>
    ELSE IF c = cBIPercent THEN (IF i % 2 = 1 THEN <<"2", "%">> ELSE <<>>)
    ELSE IF c = last_numeric_colname THEN (IF i % 2 = 1 THEN <<"1">> ELSE <<>>)
    ELSE IF c = cNotes THEN sAbc
    ELSE <<>>

ExistingDefault(c, i) ==
    IF c = first_numeric_colname THEN <<"1">>
    ELSE IF c = cBIPercent THEN (IF i % 2 = 1 THEN <<>> ELSE <<"2", "%">>)
    ELSE IF c = last_numeric_colname THEN (IF i % 2 = 1 THEN <<"2">> ELSE <<>>)
    ELSE IF c = cNotes THEN sAbc
    ELSE <<>>

Columns ==
    {sAbbr, first_numeric_colname, cBIPercent, last_numeric_colname, cNotes,
     cUnnamedNew, cUnnamedOld}
NewDefaultCells(n) == [c \in Columns |-> [i \in 1..n |-> NewDefault(c, i)]]
ExistingDefaultCells(n) == [c \in Columns |-> [i \in 1..n |-> ExistingDefault(c, i)]]

\* Fields of a numeric-metric cell: blank, the placeholder, a number with a
\* separator, tokens that are no number for pd.to_numeric, the whole numbers
\* and numbers with a point, a sign or an exponent.  The numbers are finite.
NewNumTexts ==
    {<<>>, <<"X">>, <<"1", ",", "2">>, sAbc, s1u0, s2p5, sPlus3, s1e1} \cup IntTexts
ExistingNumTexts == {<<>>, <<"X">>, <<"1", ",", "2">>, s1p5} \cup IntTexts

\* Fields of a percent-metric cell.
NewPctTexts ==
    {<<>>, <<"X">>, <<"X", "%">>, <<"%">>, sAbc,
     s45p50Pct, sPlus3Pct, sSpace3Pct, sInfPct, sNanPct}
        \cup {IntText(n) \o <<"%">> : n \in 0..MaxVal}
ExistingPctTexts == {<<>>, <<"2", "%">>, s45p50Pct, <<"X">>, <<"3">>, s0p5, sTrue}

\* The state after lines 48-52 have loaded the two DataFrames.
Loaded(new, existing) ==
    /\ new_df = new
    /\ existing_df = existing
    /\ loaded = <<new, existing>>
    /\ numeric_cols = <<>>
    /\ percent_cols = <<>>
    /\ ci = 1
    /\ di = 1
    /\ k = 1
    /\ out = <<>>
    /\ ret = NoReport
    /\ err = ""
    /\ errline = 0
    /\ pc = "classify"
Start(rawNew, rawExisting) == Loaded(DataFrame(rawNew), ReadCsv(rawExisting))

\* The inputs of the runs: pairs of the records of the sheet and the fields
\* of the snapshot.
\* Inputs that vary the columns and the states of the two datasets.
InitStructure ==
    {<<Raw(ncols, nst, NewDefaultCells(Len(nst))), Raw(ecols, est, ExistingDefaultCells(Len(est)))>> :
        ncols \in NewLayouts, ecols \in ExistingLayouts, nst \in StateSeqs, est \in StateSeqs}

\* Inputs that vary the first row's cell of one numeric-metric column.
InitNumeric ==
    {<<Raw(BaseLayout, <<sCA, sNY>>, [NewDefaultCells(2) EXCEPT ![col][1] = nv]),
       Raw(BaseLayout, <<sCA, sNY>>, [ExistingDefaultCells(2) EXCEPT ![col][1] = ov])>> :
        col \in {first_numeric_colname, last_numeric_colname},
        nv \in NewNumTexts, ov \in ExistingNumTexts}

\* Inputs that vary the cells of the percent-metric column.
InitPercent ==
    {<<Raw(BaseLayout, <<sCA, sNY>>, [NewDefaultCells(2) EXCEPT ![cBIPercent][1] = nv]),
       Raw(BaseLayout, <<sCA, sNY>>,
           [ExistingDefaultCells(2) EXCEPT ![cBIPercent] = <<ov1, ov2>>])>> :
        nv \in NewPctTexts, ov1 \in ExistingPctTexts, ov2 \in ExistingPctTexts}

\* Identifiers that pd.read_csv reads as a number, a boolean or NaN.
s1 == <<"1">>
NewIdSeqs == {<<sCA, s1>>, <<s1>>, <<sCA, <<>>>>, <<s1p5, sTrue>>}
IdTexts == {sCA, s1, s1p5, <<>>, sTrue}
ExistingIdSeqs ==
    {<<a>> : a \in IdTexts} \cup {p \in IdTexts \X IdTexts : p[1] # p[2]}

\* Inputs that vary the identifiers, with and without a shared metric column.
InitIdentifiers ==
    {<<Raw(BaseLayout, nst, NewDefaultCells(Len(nst))),
       Raw(ecols, est, ExistingDefaultCells(Len(est)))>> :
        nst \in NewIdSeqs, est \in ExistingIdSeqs, ecols \in {BaseLayout, <<sAbbr, cNotes>>}}

\* Inputs with a snapshot that has no row, with a sheet that has no record.
InitEmpty ==
    {<<Raw(BaseLayout, nst, NewDefaultCells(Len(nst))), Raw(ecols, <<>>, ExistingDefaultCells(0))>> :
        ecols \in ExistingLayouts, nst \in {<<sCA>>, <<sCA, sNY>>}}
       \cup {<<Raw(ncols, <<>>, NewDefaultCells(0)), Raw(BaseLayout, <<sCA>>, ExistingDefaultCells(1))>> :
                ncols \in NewLayouts}

\* Inputs with a dataset that has no Abbr column.
InitNoAbbr ==
    {<<Raw(Tail(BaseLayout), <<>>, NewDefaultCells(2)),
       Raw(BaseLayout, <<sCA, sNY>>, ExistingDefaultCells(2))>>,
     <<Raw(BaseLayout, <<sCA, sNY>>, NewDefaultCells(2)),
       Raw(<<first_numeric_colname, cNotes>>, <<>>, ExistingDefaultCells(2))>>}

\* Texts at the ends of the ranges of the numbers: white space around the
\* digits, more digits than a double has, powers of ten beyond the doubles,
\* and whole numbers around 2^62, 2^63 and 2^64.
sSpace3 == <<" ", "3">>
s1e400 == <<"1", "e", "4", "0", "0">>
sLongFraction ==
    <<"0", ".", "3", "0", "0", "0", "0", "0", "0", "0", "0", "0", "0", "0", "0", "0",
      "0", "0", "4">>
sTwoTo62 == BToText(BShl(<<1>>, 62))
sTwoTo63 == BToText(TwoTo63)
sMinusTwoTo63 == <<"-">> \o BToText(TwoTo63)
sTwoTo64 == BToText(TwoTo64)
NewWideTexts == {<<"3">>, sSpace3, s1e400, sLongFraction, sTwoTo62, sTwoTo63, sTwoTo64}
ExistingWideTexts ==
    {<<"1">>, sSpace3, s1e400, sLongFraction, sTwoTo62, sTwoTo63, sMinusTwoTo63, sTwoTo64}

\* Inputs that vary the first row's cell of one numeric-metric column over them.
InitRange ==
    {<<Raw(BaseLayout, <<sCA, sNY>>, [NewDefaultCells(2) EXCEPT ![col][1] = nv]),
       Raw(BaseLayout, <<sCA, sNY>>, [ExistingDefaultCells(2) EXCEPT ![col][1] = ov])>> :
        col \in {first_numeric_colname, last_numeric_colname},
        nv \in NewWideTexts, ov \in ExistingWideTexts}

\* Columns of two cells whose dtype depends on both.
NewColumns == {<<<<"3">>, <<"3">>>>, <<sTwoTo63, <<"-", "1">>>>, <<sSpace3, <<"4">>>>}
ExistingColumns ==
    {<<<<"-", "1">>, sTwoTo63>>, <<sTwoTo63, <<>>>>, <<sSpace3, <<"4", " ">>>>,
     <<s1p5, s1e400>>, <<sTrue, sFalse>>, <<sTwoTo63, sTwoTo62>>}

\* Inputs that vary the column `BI cases` over them.
InitColumn ==
    {<<Raw(BaseLayout, <<sCA, sNY>>, [NewDefaultCells(2) EXCEPT ![first_numeric_colname] = nc]),
       Raw(BaseLayout, <<sCA, sNY>>,
           [ExistingDefaultCells(2) EXCEPT ![first_numeric_colname] = oc])>> :
        nc \in NewColumns, oc \in ExistingColumns}

\* A run starts from one of the inputs, loaded by lines 48-52.
Init ==
    \E input \in InitStructure \cup InitNumeric \cup InitPercent \cup InitIdentifiers
                    \cup InitEmpty \cup InitNoAbbr \cup InitRange \cup InitColumn :
        Start(input[1], input[2])

Next ==
    \/ Classify
    \/ NormalizeNumeric
    \/ NormalizePercent
    \/ StateDiff
    \/ ColumnDiff
    \/ CheckState
    \/ Return

Spec == Init /\ [][Next]_vars

(***************************************************************************)
(* Vocabulary of the properties.                                           *)
(***************************************************************************)
\* Positions of the lines of `lines` with the given issue, state and metric.
LinesAt(lines, issue, state, col) ==
    {i \in DOMAIN lines :
        lines[i].issue = issue /\ lines[i].state = state /\ lines[i].metric = col}

\* The lines of the per-state loop that may raise.
DetectionLines == {131, 137, 141, 146, 153, 157, 162, 170}
\* The run is past the normalization loops.
NormalizationDone ==
    \/ pc \in {"statediff", "coldiff", "states", "return", "done"}
    \/ pc = "raised" /\ errline \in DetectionLines
\* The run is past the state-set diff.
StateDiffDone ==
    \/ pc \in {"coldiff", "states", "return", "done"}
    \/ pc = "raised" /\ errline \in DetectionLines
\* The run is past the column-set diff.
ColumnDiffDone ==
    \/ pc \in {"states", "return", "done"}
    \/ pc = "raised" /\ errline \in DetectionLines
\* The per-state loop has visited every row of the existing dataset.
DetectionDone == pc \in {"return", "done"}
\* The states whose rows the per-state loop has compared so far.
Visited ==
    IF ColumnDiffDone THEN {existing_df.data[sAbbr][i] : i \in 1..(k - 1)} ELSE {}

\* The metric columns that are in both datasets.
SharedNumeric == Range(numeric_cols) \cap ColSet(new_df) \cap ColSet(existing_df)
SharedPercent == Range(percent_cols) \cap ColSet(new_df) \cap ColSet(existing_df)

\* The value of a state's cell, and whether it is present.
OldValue(s, c) == FirstCell(existing_df, s, c)
NewValue(s, c) == FirstCell(new_df, s, c)
Present(x) == x.t # "nan"
\* The number sign * n / d; the sign of 0 is 0.
Fraction(sign, n, d) == [sign |-> IF n = <<>> THEN 0 ELSE sign, n |-> n, d |-> d]
\* The decimal a text holds.
DecimalFraction(p) ==
    Fraction(IF p.neg THEN 0 - 1 ELSE 1,
             BTimesPow10(BFromDigits(p.digits, <<>>), IF p.e > 0 THEN p.e ELSE 0),
             BTimesPow10(<<1>>, IF p.e < 0 THEN 0 - p.e ELSE 0))
\* The number a cell holds, as a fraction; an infinity has the denominator
\* 0, and a text that a conversion has left is the decimal it holds.
Exact(x) ==
    IF x.t = "str" THEN DecimalFraction(ParseNumber(x.s, FALSE))
    ELSE IF x.t = "inf" THEN Fraction(x.v, <<1>>, <<>>)
    ELSE IF x.t = "num"
    THEN Fraction(x.v, BShl(x.m, IF x.e > 0 THEN x.e ELSE 0),
                  BShl(<<1>>, IF x.e < 0 THEN 0 - x.e ELSE 0))
    ELSE Fraction(NumVal(x).v, NumVal(x).m, <<1>>)
\* sa * x < sb * y of two whole numbers with their signs (0 for 0)
SignedLess(sa, x, sb, y) ==
    IF sa # sb THEN sa < sb
    ELSE IF sa > 0 THEN BCmp(x, y) < 0
    ELSE IF sa < 0 THEN BCmp(x, y) > 0
    ELSE FALSE
\* The same with the signs of the factors.
ProductLess(sa, x, sb, y) ==
    SignedLess(IF x = <<>> THEN 0 ELSE sa, x, IF y = <<>> THEN 0 ELSE sb, y)
\* m * a < n * b of two fractions, for m, n > 0
FractionLess(m, a, n, b) ==
    IF a.d = <<>> /\ b.d = <<>> THEN a.sign < b.sign
    ELSE ProductLess(a.sign, BMulAdd(BMul(a.n, b.d), m, 0),
                     b.sign, BMulAdd(BMul(b.n, a.d), n, 0))
\* m * a < n * b of the numbers two cells hold
TimesLess(m, a, n, b) == FractionLess(m, Exact(a), n, Exact(b))

\* The check (1 to 4) a line of the report comes from; 0 for the header.
CheckNo(l) ==
    IF l.issue = "Issue" THEN 0
    ELSE IF l.issue \in {"State removed!", "State added"} THEN 1
    ELSE IF l.issue \in {"New column added", "Column removed"} THEN 2
    ELSE IF Contains(l.metric, sPercent) THEN 4
    ELSE 3

(***************************************************************************)
(* C1.  For every state of the existing dataset that the new dataset does  *)
(* not have, the per-state loop does not raise, and each metric column in  *)
(* both datasets gets a `Lost metric` line for that state exactly when the *)
(* old value is present.                                                   *)
(***************************************************************************)
C1_AbsentStateIsAllMissing ==
    /\ ~(pc = "raised" /\ err = "IndexError")
    /\ DetectionDone =>
          \A r \in states_dropped :
             \A c \in SharedNumeric \cup SharedPercent :
                (LinesAt(out, "Lost metric", FormatS(existing_df.data[sAbbr][r]), c) # {})
                    <=> Present(OldValue(existing_df.data[sAbbr][r], c))

(***************************************************************************)
(* C2.  For every state the per-state loop has compared and every          *)
(* numeric-metric column in both datasets whose old and new values are     *)
(* both present, a `Cumulative decrease` line was appended if and only if  *)
(* new < old and the column is not `Total Individuals not fully            *)
(* vaccinated`; and no line of that issue ever names that column.          *)
(***************************************************************************)
C2_CumulativeDecrease ==
    /\ \A i \in DOMAIN out :
          out[i].issue = "Cumulative decrease" => out[i].metric # last_numeric_colname
    /\ \A s \in Visited : \A c \in SharedNumeric :
             (Present(OldValue(s, c)) /\ Present(NewValue(s, c))) =>
                ((LinesAt(out, "Cumulative decrease", FormatS(s), c) # {})
                    <=> (/\ TimesLess(1, NewValue(s, c), 1, OldValue(s, c))
                         /\ c # last_numeric_colname))

\* A finished run with a decrease line, and a whitelisted pair that went down.
C2_Witness ==
    /\ pc = "done"
    /\ \E i \in DOMAIN out : out[i].issue = "Cumulative decrease"
    /\ \E s \in Visited :
          /\ last_numeric_colname \in SharedNumeric
          /\ Present(OldValue(s, last_numeric_colname))
          /\ Present(NewValue(s, last_numeric_colname))
          /\ TimesLess(1, NewValue(s, last_numeric_colname),
                       1, OldValue(s, last_numeric_colname))

(***************************************************************************)
(* C3.  For every state the per-state loop has compared and every          *)
(* numeric-metric column in both datasets whose old and new values are     *)
(* both present, a `>2x increase` line was appended if and only if         *)
(* new > 2 * old, whatever the decrease check did; where new < old holds   *)
(* too on a column that is not whitelisted, both lines are there and the   *)
(* `Cumulative decrease` line comes first.                                 *)
(***************************************************************************)
C3_BigIncrease ==
    \A s \in Visited :
       \A c \in SharedNumeric :
          (Present(OldValue(s, c)) /\ Present(NewValue(s, c))) =>
             /\ (LinesAt(out, ">2x increase", FormatS(s), c) # {})
                   <=> TimesLess(2, OldValue(s, c), 1, NewValue(s, c))
             /\ (/\ TimesLess(2, OldValue(s, c), 1, NewValue(s, c))
                 /\ TimesLess(1, NewValue(s, c), 1, OldValue(s, c))
                 /\ c # last_numeric_colname) =>
                   \E i \in LinesAt(out, "Cumulative decrease", FormatS(s), c) :
                      \A j \in LinesAt(out, ">2x increase", FormatS(s), c) : i < j

(***************************************************************************)
(* C4.  For every state the per-state loop has compared and every metric   *)
(* column (numeric or percent) in both datasets there is exactly           *)
(* one `New metric` line if old is missing and new is present and none     *)
(* otherwise, exactly one `Lost metric` line if old is present and new is  *)
(* missing and none otherwise; when one of the two values is missing there *)
(* is no `Cumulative decrease` and no `>2x increase` line for the pair;    *)
(* and no line of these two issues ever names a percent-metric column.     *)
(***************************************************************************)
C4_PresenceCheck ==
    /\ \A i \in DOMAIN out :
          out[i].issue \in {"Cumulative decrease", ">2x increase"} =>
             ~Contains(out[i].metric, sPercent)
    /\ \A s \in Visited : \A c \in SharedNumeric \cup SharedPercent :
             LET old == OldValue(s, c)
                 new == NewValue(s, c)
             IN  /\ Cardinality(LinesAt(out, "New metric", FormatS(s), c))
                       = IF ~Present(old) /\ Present(new) THEN 1 ELSE 0
                 /\ Cardinality(LinesAt(out, "Lost metric", FormatS(s), c))
                       = IF Present(old) /\ ~Present(new) THEN 1 ELSE 0
                 /\ (~Present(old) \/ ~Present(new)) =>
                       /\ LinesAt(out, "Cumulative decrease", FormatS(s), c) = {}
                       /\ LinesAt(out, ">2x increase", FormatS(s), c) = {}

\* A finished run with a `New metric` and a `Lost metric` line of a percent
\* column, a numeric pair with a missing value and one with both missing.
C4_Witness ==
    /\ pc = "done"
    /\ \E i, j \in DOMAIN out :
          /\ out[i].issue = "New metric" /\ Contains(out[i].metric, sPercent)
          /\ out[j].issue = "Lost metric" /\ Contains(out[j].metric, sPercent)
    /\ \E i \in DOMAIN out :
          out[i].issue \in {"New metric", "Lost metric"} /\ out[i].metric \in SharedNumeric
    /\ \E s \in Visited : \E c \in SharedNumeric \cup SharedPercent :
          ~Present(OldValue(s, c)) /\ ~Present(NewValue(s, c))

(***************************************************************************)
(* C5.  Once the normalization loops are through, every metric column      *)
(* (numeric or percent) that was loaded with a numeric dtype holds the     *)
(* cells it was loaded with.                                               *)
(***************************************************************************)
C5_NormalizationIdempotent ==
    NormalizationDone =>
       \A d \in {1, 2} :
          LET df == IF d = 1 THEN new_df ELSE existing_df
          IN  \A c \in (Range(numeric_cols) \cup Range(percent_cols)) \cap ColSet(loaded[d]) :
                 loaded[d].dtype[c] \in {"int64", "uint64", "float64"} =>
                    df.data[c] = loaded[d].data[c]

(***************************************************************************)
(* C6.  In the returned report the header comes first and the lines of     *)
(* the four checks follow in the order of the checks: no line of a check   *)
(* comes after a line of a later check.                                    *)
(***************************************************************************)
C6_ChecksInOrder ==
    pc = "done" =>
       /\ ret[1] = HeaderLine
       /\ \A i, j \in DOMAIN ret : i < j => CheckNo(ret[i]) <= CheckNo(ret[j])

\* The row of the existing dataset a per-state line belongs to; 0 for the
\* lines of the header and of the two set diffs.
RowNo(l) ==
    IF CheckNo(l) < 3 THEN 0
    ELSE CHOOSE i \in 1..NRows(existing_df) : FormatS(existing_df.data[sAbbr][i]) = l.state

\* (check, row, check) of a line, the set diffs and the per-state lines
\* being the three stages of the layout.
Stage(l) == IF CheckNo(l) < 3 THEN CheckNo(l) ELSE 3

Precedes(a, b) ==
    \/ Stage(a) < Stage(b)
    \/ Stage(a) = Stage(b) /\ RowNo(a) < RowNo(b)
    \/ Stage(a) = Stage(b) /\ RowNo(a) = RowNo(b) /\ CheckNo(a) <= CheckNo(b)

(***************************************************************************)
(* C6, amended.  In the returned report the header comes first, then the   *)
(* state-diff lines, then the column-diff lines, then the per-state lines  *)
(* state by state in the row order of the existing dataset; within one     *)
(* state the numeric-metric lines come before the percent-metric lines.    *)
(***************************************************************************)
C6_ChecksInOrderPerState ==
    pc = "done" =>
       /\ ret[1] = HeaderLine
       /\ \A i, j \in DOMAIN ret : i < j => Precedes(ret[i], ret[j])

\* A returned report where a percent-metric line of one state comes before
\* a numeric-metric line of the next, after a line of the column diff.
C6_Witness ==
    /\ pc = "done"
    /\ \E i, j \in DOMAIN ret : i < j /\ CheckNo(ret[i]) = 4 /\ CheckNo(ret[j]) = 3
    /\ \E i \in DOMAIN ret : CheckNo(ret[i]) = 2

\* The state-diff lines with the given issue for one identifier.
StateDiffLines(issue, id) ==
    {i \in DOMAIN out : out[i].issue = issue /\ out[i].state = id}
\* The identifiers of the rows of a dataset, as '%s' writes them.
Identifiers(df) == {FormatS(df.data[sAbbr][i]) : i \in 1..NRows(df)}
\* The same of the state-diff lines.
ReportedIdentifiers == {out[i].state : i \in {j \in DOMAIN out : CheckNo(out[j]) = 1}}

(***************************************************************************)
(* C7.  After the state-set diff there is exactly one line for each        *)
(* identifier in existing and not in new, exactly one line                 *)
(* `<id>,State added` for each identifier in new and not in existing, and  *)
(* none for any other identifier; the lines have two fields.  The issue of *)
(* a removed identifier is read as line 107 writes it, `State removed!`,   *)
(* with the exclamation mark the claim leaves out.                         *)
(***************************************************************************)
C7_StateDiffLines ==
    StateDiffDone =>
       \A id \in Identifiers(new_df) \cup Identifiers(existing_df) \cup ReportedIdentifiers :
          /\ Cardinality(StateDiffLines("State removed!", id))
                = IF id \in Identifiers(existing_df) \ Identifiers(new_df) THEN 1 ELSE 0
          /\ Cardinality(StateDiffLines("State added", id))
                = IF id \in Identifiers(new_df) \ Identifiers(existing_df) THEN 1 ELSE 0
          /\ \A i \in StateDiffLines("State removed!", id) \cup StateDiffLines("State added", id) :
                out[i].nf = 2 /\ out[i].metric = <<>> /\ out[i].fmt = ""

(***************************************************************************)
(* C8.  After the column-set diff, a column has a `New column added` line  *)
(* exactly if it is in new, not in existing and its name does not start    *)
(* with `Unnamed`, and a `Column removed` line exactly if it is in         *)
(* existing, not in new and its name does not start with `Unnamed`; these  *)
(* lines are scoped to `All` and none names an `Unnamed` column.           *)
(***************************************************************************)
C8_ColumnDiffLines ==
    /\ \A i \in DOMAIN out :
          out[i].issue \in {"New column added", "Column removed"} =>
             out[i].state = sAll /\ ~StartsWith(out[i].metric, sUnnamed)
    /\ ColumnDiffDone =>
          \A c \in ColSet(new_df) \cup ColSet(existing_df) :
             /\ (LinesAt(out, "New column added", sAll, c) # {})
                   <=> (/\ c \in ColSet(new_df) \ ColSet(existing_df)
                        /\ ~StartsWith(c, sUnnamed))
             /\ (LinesAt(out, "Column removed", sAll, c) # {})
                   <=> (/\ c \in ColSet(existing_df) \ ColSet(new_df)
                        /\ ~StartsWith(c, sUnnamed))

\* Past the column diff, with a line of each kind and an `Unnamed` column
\* only in new and one only in existing.
C8_Witness ==
    /\ ColumnDiffDone
    /\ \E i, j \in DOMAIN out :
          out[i].issue = "New column added" /\ out[j].issue = "Column removed"
    /\ \E c \in ColSet(new_df) \ ColSet(existing_df) : StartsWith(c, sUnnamed)
    /\ \E c \in ColSet(existing_df) \ ColSet(new_df) : StartsWith(c, sUnnamed)

(***************************************************************************)
(* C9.  The percent loop never raises, and once the normalization loops    *)
(* are through every cell of a percent-metric column of either dataset is  *)
(* a number or missing.                                                    *)
(***************************************************************************)
C9_PercentNeverRaises ==
    /\ errline # 91
    /\ NormalizationDone =>
          \A d \in {1, 2} :
             LET df == IF d = 1 THEN new_df ELSE existing_df
             IN  \A c \in Range(percent_cols) \cap ColSet(df) :
                    \A i \in DOMAIN df.data[c] : df.data[c][i].t \in {"num", "inf", "nan"}

\* The new dataset was loaded without one of the two boundary columns.
BoundaryAbsent ==
    \/ first_numeric_colname \notin Range(loaded[1].columns)
    \/ last_numeric_colname \notin Range(loaded[1].columns)

(***************************************************************************)
(* C10.  If a boundary column is absent from the new dataset, the run      *)
(* raises at the column lookup (the ValueError of list.index, the          *)
(* configuration error of the run): both datasets are as loaded, no line   *)
(* was appended and no report is returned.                                 *)
(***************************************************************************)
C10_BoundaryAbsentAborts ==
    (BoundaryAbsent /\ pc # "classify") =>
       /\ pc = "raised"
       /\ err = "ValueError"
       /\ errline \in {56, 57}
       /\ new_df = loaded[1]
       /\ existing_df = loaded[2]
       /\ out = <<>>
       /\ ret = NoReport

\* A run that raised for the absent last boundary column.
C10_Witness == BoundaryAbsent /\ pc = "raised" /\ errline = 57

====
